---------------------------- MODULE Spec2Model ----------------------------
(*************************************************************************)
(* zcoroutine: a stackful coroutine runtime (Fiber, FiberPool,           *)
(* TaskQueue, Scheduler, FdContext, TimerManager, IoScheduler, hook).    *)
(*                                                                       *)
(* The module holds several state machines over disjoint variables:     *)
(*   SpecFiber  the Fiber life cycle on one thread, with the FiberPool   *)
(*              and the dispatch step of Scheduler::schedule_loop;       *)
(*   SpecSched  the Scheduler: TaskQueue push/try_pop/pop/stop at the    *)
(*              granularity of its lock and condition variable, the      *)
(*              worker threads and start()/stop();                       *)
(*   SpecIo     the IoScheduler: hooked read/sleep of a coroutine, the   *)
(*              timer set, the fd context, the reactor thread and the    *)
(*              workers;                                                 *)
(*   SpecFd     one FdContext under concurrent add_event, del_event,     *)
(*              cancel_event and the reactor's trigger_event, with the   *)
(*              poller's registration of the fd;                         *)
(*   SpecTimer  the timers: TimerManager, Timer, the reactor's loop and  *)
(*              the execution of the expired timers' closures;           *)
(*   SpecStack  the coroutines bound to one shared-stack slot: co_swap,  *)
(*              the save buffers and the slot's memory;                  *)
(*   SpecWorkers  the same coroutines resumed by several worker threads; *)
(*   SpecPool   the FiberPool under concurrent acquire, release, resize  *)
(*              and clear, with the coroutines it hands out;             *)
(*   SpecHook   one file descriptor under the hooked socket, read/write, *)
(*              fcntl, ioctl and close, with its FdCtx record, its       *)
(*              registration with the IoScheduler and the OS flags.      *)
(* Each specification leaves the variables of the others unchanged.      *)
(*************************************************************************)
EXTENDS Integers, Sequences, FiniteSets, TLC

(*************************************************************************)
(* Bounds of the model                                                   *)
(*************************************************************************)
\* user coroutine objects that may be constructed in SpecFiber
NumFibers == 2
\* FiberPool max_size_ used in SpecFiber
PoolMax == 1
\* Scheduler thread_count_ in SpecSched
NumWorkers == 2
\* tasks handed to Scheduler::schedule in SpecSched
MaxTasks == 3
\* start()/stop() calls made by the main thread in SpecSched
MaxCalls == 4
\* milliseconds the clock of SpecIo advances
MaxTime == 2
\* longest SO_RCVTIMEO / sleep duration, in milliseconds, used in SpecIo
MaxTimeout == 1
\* add_event calls made in SpecFd
MaxRegs == 3
\* timers added in SpecTimer
NumTimers == 3
\* longest timeout / interval of a timer, in milliseconds, in SpecTimer
MaxInterval == 2
\* closures of expired timers on the task queue in SpecTimer
MaxClosures == 1
\* timers on which refresh() or reset() is called in SpecTimer
MaxTouches == 1
\* milliseconds the clock of SpecTimer advances
MaxTimerTime == 1
\* coroutines bound to the shared-stack slot of SpecStack
NumStackFibers == 2
\* cells of the slot's memory (the deepest stack pointer) in SpecStack
MaxDepth == 2
\* values a coroutine writes into its stack cells in SpecStack
MaxVal == 2
\* threads that resume the coroutines of the slot in SpecWorkers
NumStackThreads == 2
\* coroutine objects the pool may create in SpecPool
NumPoolFibers == 1
\* acquire calls made in SpecPool
MaxAcquires == 2
\* threads calling the pool in SpecPool
NumPoolThreads == 2
\* hooked read/write calls made in SpecHook
MaxHookCalls == 1
\* add_event calls with a callback made by user code in SpecHook
MaxHookAdds == 1
\* times the original function is interrupted (EINTR) in one attempt
MaxIntr == 1
\* the largest fd number looked up in SpecFdTable
MaxFd == 1
\* get_fd_context calls made in SpecFdTable
MaxGets == 3
\* yields in the callable of a coroutine of SpecLoop
MaxYields == 2

VARIABLES
  \* ---- SpecFiber -------------------------------------------------------
  state_,          \* Fiber::state_ of every coroutine object (0 is the main fiber)
  callback_,       \* Fiber::callback_: what is left of the callable
  exception_,      \* Fiber::exception_ captured by main_func
  current_fiber_,  \* ThreadContext::current_fiber_ (-1 is nullptr)
  resuming,        \* the resume() call the main context is suspended in
  idle_fibers_,    \* FiberPool::idle_fibers_
  aborted,         \* an assert() failed: the process is gone
  transitions,     \* history: the state changes made by the last step that made one
  delivered,       \* history: the exception of a coroutine came out of its resume()
  misuse           \* history: the erroneous call made by the last step, and its end

VARIABLES
  \* ---- SpecSched -------------------------------------------------------
  tasks_,          \* TaskQueue::tasks_
  size_,           \* TaskQueue::size_ (atomic, unsigned)
  stopped_,        \* TaskQueue::stopped_
  spinlock_,       \* TaskQueue::spinlock_: the thread holding it
  cv_,             \* TaskQueue::cv_: the threads blocked in cv_.wait
  stopping_,       \* Scheduler::stopping_
  threads_,        \* Scheduler::threads_: the workers with a thread object
  wpc,             \* where each worker thread is
  wtask,           \* the task a worker popped
  cpc,             \* where each client thread (main, producer) is
  nextTask,        \* tasks handed to schedule() so far
  executed,        \* tasks whose callable has run
  pushOrder,       \* history: tasks in the order their push took effect
  popOrder,        \* history: tasks in the order they were removed
  calls,           \* history: the start()/stop() calls that returned
  spawned,         \* history: worker threads created
  joined,          \* history: worker threads joined
  atStop           \* history: what stop() found when it was called

VARIABLES
  \* ---- SpecIo (with state_, tasks_, aborted, transitions) --------------
  now,             \* get_current_ms()
  timers_,         \* TimerManager::timers_ (the timer of coroutine f is f)
  next_time_,      \* Timer::next_time_
  cancelled_,      \* Timer::cancelled_
  tinfo,           \* timer_info::cancelled of the hooked call of a coroutine
  events_,         \* FdContext::events_ (the fd of coroutine f is f)
  read_ctx_,       \* FdContext::read_ctx_.fiber
  epoll_,          \* the events the poller watches on each fd
  readable,        \* the fd has data to read
  recv_timeout_,   \* FdCtx::recv_timeout_
  hook,            \* the hooked call of each coroutine: op, pc, locals, result
  wrun,            \* the task each worker's schedule_loop is executing
  configured,      \* history: fds SO_RCVTIMEO was set on
  triggered,       \* history: coroutines trigger_event took out of a wait slot
  timerRan         \* history: timers whose callback was invoked

fiberVars == <<state_, callback_, exception_, current_fiber_, resuming,
               idle_fibers_, aborted, transitions, delivered, misuse>>

schedVars == <<tasks_, size_, stopped_, spinlock_, cv_, stopping_, threads_,
               wpc, wtask, cpc, nextTask, executed, pushOrder, popOrder,
               calls, spawned, joined, atStop>>

ioVars == <<now, timers_, next_time_, cancelled_, tinfo, events_, read_ctx_,
            epoll_, readable, recv_timeout_, hook, wrun, configured,
            triggered, timerRan>>

VARIABLES
  \* ---- SpecFd: one FdContext and its registration with the poller ------
  fd_events_,      \* FdContext::events_
  fd_ctx_,         \* FdContext::read_ctx_ / write_ctx_: fiber and callback
  poller_,         \* the poller's registration of the fd
  fth,             \* where each thread is inside an IoScheduler call
  fired,           \* history: invocations / enqueueings of each waiter
  nextReg,         \* waiters handed to add_event so far
  lastAdd,         \* history: the last add_event that returned, and the slot then
  overlapped       \* history: two calls on the fd have been in progress at once

fdVars == <<fd_events_, fd_ctx_, poller_, fth, fired, nextReg, lastAdd,
            overlapped>>

VARIABLES
  \* ---- SpecTimer (with now) ----------------------------------------------
  tm,              \* the Timer objects: next_time_, interval_, recurring_, ...
  tm_timers_,      \* TimerManager::timers_, in the order of the set
  tpc,             \* where the reactor thread is in its loop, its wait
  upc,             \* the timer whose add_timer the user thread is inside
  pipe,            \* bytes in the wake pipe (0 or 1: at least one)
  tq,              \* closures of expired timers on the task queue
  texec,           \* where the worker is in Timer::execute
  returned,        \* what the last list_expired_callbacks returned
  ran              \* history: times the user callback of each timer started

tmVars == <<tm, tm_timers_, tpc, upc, pipe, tq, texec, returned, ran>>

VARIABLES
  \* ---- SpecStack: the coroutines of one SharedStackBuffer ---------------
  sfib,            \* per coroutine: state_, stack_sp_, save_buffer_
  slot,            \* the memory of the slot, cell 1 next to stack_top()
  occupy_fiber_,   \* SharedStackBuffer::occupy_fiber_
  scur,            \* ThreadContext's current fiber, of each thread
  atSuspend,       \* history: the cells [stack_sp_, top) at the last yield
  found,           \* history: the same cells as found at the last resume
  overrun          \* history: memcpy has written above stack_top()

stackVars == <<sfib, slot, occupy_fiber_, scur, atSuspend, found, overrun>>

VARIABLES
  \* ---- SpecPool: the FiberPool and the coroutines it hands out ----------
  pfib,            \* per coroutine: id_, state_, callback_, exception_, entry
  pool,            \* idle_fibers_, max_size_, total_created_, total_reused_
  pth,             \* where each thread is inside release() or clear()
  acquires,        \* history: acquire calls made so far
  runs,            \* history: times each callable was started
  pabort           \* an assert() failed: the process is gone

poolVars == <<pfib, pool, pth, acquires, runs, pabort>>

VARIABLES
  \* ---- SpecHook: one file descriptor number and the calling coroutine ----
  t_hook_enable,   \* hook.cc: the thread-local t_hook_enable
  osfd,            \* the descriptor in the OS: open, socket, O_NONBLOCK, readiness
  fd_datas_,       \* FdManager's FdCtx of the fd (present or not)
  io_fd_,          \* IoScheduler's FdContext of the fd and the poller's registration
  hcall,           \* the hooked call of the coroutine: where it is, its result
  hhist            \* history: hooked calls made, callbacks added, waiters fired by the last step

hookVars == <<t_hook_enable, osfd, fd_datas_, io_fd_, hcall, hhist>>

VARIABLES
  \* ---- SpecFdTable: IoScheduler's vector of fd contexts ------------------
  fd_contexts_,    \* IoScheduler::fd_contexts_: the FdContext of each index (0: nullptr)
  gth,             \* per thread: where it is in get_fd_context, its fd, what it returned
  tabhist          \* history: calls made, contexts created, unsynchronised accesses

tabVars == <<fd_contexts_, gth, tabhist>>

VARIABLES
  \* ---- SpecLoop: one worker thread, its task queue and its coroutines ---
  rq,              \* the task queue: the coroutines scheduled, oldest first
  lfib,            \* per coroutine: state_, the yields of its callable, those left, its wake-up
  lcur,            \* ThreadContext::current_fiber_ of the worker
  labort           \* an assert of Fiber::resume has stopped the process

loopVars == <<rq, lfib, lcur, labort>>

vars == <<fiberVars, schedVars, ioVars, fdVars, tmVars, stackVars, poolVars,
          hookVars, tabVars, loopVars>>

\* what each specification leaves alone
fiberForeign == <<schedVars, ioVars, fdVars, tmVars, stackVars, poolVars,
  hookVars, tabVars, loopVars>>
schedForeign == <<fiberVars, ioVars, fdVars, tmVars, stackVars, poolVars,
  hookVars, tabVars, loopVars>>
ioForeign == <<callback_, exception_, current_fiber_, resuming, idle_fibers_,
               delivered, misuse,
               size_, stopped_, spinlock_, cv_, stopping_, threads_, wpc,
               wtask, cpc, nextTask, executed, pushOrder, popOrder, calls,
               spawned, joined, atStop, fdVars, tmVars, stackVars,
               poolVars, hookVars, tabVars, loopVars>>
fdForeign == <<fiberVars, schedVars, ioVars, tmVars, stackVars, poolVars,
  hookVars, tabVars, loopVars>>
tmForeign == <<fiberVars, schedVars, ioVars, fdVars, stackVars, poolVars,
  hookVars, tabVars, loopVars>>
stackForeign == <<fiberVars, schedVars, ioVars, fdVars, tmVars, poolVars,
  hookVars, tabVars, loopVars>>
poolForeign == <<fiberVars, schedVars, ioVars, fdVars, tmVars, stackVars,
  hookVars, tabVars, loopVars>>
hookForeign == <<fiberVars, schedVars, ioVars, fdVars, tmVars, stackVars,
  poolVars, tabVars, loopVars>>
tabForeign == <<fiberVars, schedVars, ioVars, fdVars, tmVars, stackVars,
  poolVars, hookVars, loopVars>>
loopForeign == <<fiberVars, schedVars, ioVars, fdVars, tmVars, stackVars,
  poolVars, hookVars, tabVars>>

(*************************************************************************)
(* Fiber (src/src/runtime/fiber.cc)                                      *)
(*************************************************************************)
MainFiber == 0
NoFiber == -1
UserFibers == 1..NumFibers
AllFibers == {MainFiber} \cup UserFibers

\* Fiber::State, and "Unborn" for an object that is not constructed yet
States == {"Ready", "Running", "Suspended", "Terminated"}

\* a callable: whether it ends by throwing (it yields any number of times)
Callables == [throws : BOOLEAN]
NoCallable == [throws |-> FALSE]

\* history of the last state changes, kept for the witnesses
Record(new) ==
  transitions' =
     {<<state_[f], new[f]>> : f \in {g \in AllFibers : new[g] # state_[g]}}

\* the code running now: the thread's own context (main) or a user fiber's body
NoResume == [fiber |-> NoFiber, sched |-> FALSE]
\* the last step was no erroneous call
NoMisuse == [call |-> "none", outcome |-> "none"]
InMain == current_fiber_ \in {NoFiber, MainFiber} /\ resuming = NoResume
InFiber(f) == f \in UserFibers /\ current_fiber_ = f /\ state_[f] = "Running"

FiberInit ==
  /\ state_ = [f \in AllFibers |-> "Unborn"]
  /\ callback_ = [f \in AllFibers |-> NoCallable]
  /\ exception_ = [f \in AllFibers |-> FALSE]
  /\ current_fiber_ = NoFiber
  /\ resuming = NoResume
  /\ idle_fibers_ = <<>>
  /\ aborted = FALSE
  /\ transitions = {}
  /\ delivered = [f \in AllFibers |-> "none"]
  /\ misuse = NoMisuse

\* Fiber::Fiber(func, stack_size, name): a new object, state_ defaults to kReady
Construct(f, func) ==
  /\ ~aborted
  /\ UNCHANGED fiberForeign
  /\ InMain \/ \E g \in UserFibers : InFiber(g)
  /\ state_[f] = "Unborn"
  /\ \A g \in UserFibers : g < f => state_[g] # "Unborn"
  /\ state_' = [state_ EXCEPT ![f] = "Ready"]
  /\ callback_' = [callback_ EXCEPT ![f] = func]
  /\ Record(state_')
  /\ misuse' = NoMisuse
  /\ UNCHANGED <<exception_, current_fiber_, resuming, idle_fibers_, aborted,
                 delivered>>

\* a yield that marks the coroutine runnable again instead of suspended
YieldState_Ready == "Ready"

\* the state written by Fiber::yield() (fiber.cc:426)
YieldState == "Suspended"

\* the body of Fiber::resume(): asserts, implicit main fiber, state_ = kRunning,
\* co_swap(prev, this). byScheduler: the call made by schedule_loop.
ResumeBody(f, byScheduler) ==
  IF state_[f] \in {"Terminated", "Running"}
  THEN /\ aborted' = TRUE
       /\ misuse' = [call |-> IF state_[f] = "Terminated"
                               THEN "resume_terminated" ELSE "resume_running",
                      outcome |-> "assert"]
       /\ UNCHANGED <<state_, callback_, exception_, current_fiber_, resuming,
                      idle_fibers_, transitions, delivered>>
  ELSE /\ state_' = [state_ EXCEPT
                       ![f] = "Running",
                       ![MainFiber] = IF current_fiber_ = NoFiber
                                      THEN "Running" ELSE @]
       /\ current_fiber_' = f
       /\ resuming' = IF InMain
                      THEN [fiber |-> f, sched |-> byScheduler]
                      ELSE resuming
       /\ transitions' = {<<state_[f], "Running">>}
       /\ delivered' = [delivered EXCEPT ![f] = "none"]
       /\ misuse' = NoMisuse
       /\ UNCHANGED <<callback_, exception_, idle_fibers_, aborted>>

\* fiber->resume() called by user code, from the thread or from a running fiber
Resume(f) ==
  /\ ~aborted
  /\ UNCHANGED fiberForeign
  /\ InMain \/ \E g \in UserFibers : InFiber(g)
  /\ f \in UserFibers /\ state_[f] # "Unborn"
  /\ ResumeBody(f, FALSE)

\* Scheduler::schedule_loop: the task is a fiber, fiber->resume()
Dispatch(f) ==
  /\ ~aborted
  /\ UNCHANGED fiberForeign
  /\ InMain
  /\ f \in UserFibers /\ state_[f] # "Unborn"
  /\ ResumeBody(f, TRUE)

\* Fiber::yield() on a thread with no current fiber: a warning is logged
\* and the call returns (fiber.cc:417-421)
YieldNoCurrent == "returned"

\* Fiber::yield(): the running code gives up the thread
Yield ==
  /\ ~aborted
  /\ UNCHANGED fiberForeign
  /\ resuming = NoResume \/ current_fiber_ # MainFiber
  /\ UNCHANGED delivered
  /\ IF current_fiber_ = NoFiber
     THEN /\ misuse' = [call |-> "yield_no_current", outcome |-> YieldNoCurrent]
          /\ aborted' = (YieldNoCurrent = "assert")
          /\ UNCHANGED <<state_, callback_, exception_, current_fiber_,
                         resuming, idle_fibers_, transitions>>
     ELSE IF state_[current_fiber_] # "Running"
     THEN /\ aborted' = TRUE
          /\ misuse' = [call |-> "yield_not_running", outcome |-> "assert"]
          /\ UNCHANGED <<state_, callback_, exception_, current_fiber_,
                         resuming, idle_fibers_, transitions>>
     ELSE /\ state_' = [state_ EXCEPT ![current_fiber_] = YieldState]
          /\ current_fiber_' = MainFiber
          /\ Record(state_')
          /\ misuse' = NoMisuse
          /\ UNCHANGED <<callback_, exception_, resuming, idle_fibers_,
                         aborted>>

\* Fiber::main_func: the callable returned or threw; state_ = kTerminated and
\* confirm_switch_target() switches to the main fiber
MainFuncEnd ==
  /\ ~aborted
  /\ UNCHANGED fiberForeign
  /\ \E f \in UserFibers :
       /\ InFiber(f)
       /\ state_' = [state_ EXCEPT ![f] = "Terminated"]
       /\ exception_' = [exception_ EXCEPT ![f] = callback_[f].throws]
       /\ callback_' = [callback_ EXCEPT ![f] = NoCallable]
       /\ current_fiber_' = MainFiber
       /\ Record(state_')
       /\ misuse' = NoMisuse
       /\ UNCHANGED <<resuming, idle_fibers_, aborted, delivered>>

\* FiberPool::release(fiber)
ReleaseBody(f) ==
  IF state_[f] = "Terminated" /\ Len(idle_fibers_) < PoolMax
  THEN idle_fibers_' = Append(idle_fibers_, f)
  ELSE idle_fibers_' = idle_fibers_

\* a schedule_loop whose try block around fiber->resume() has no handler
LoopCatch_Rethrow == "throw"

\* schedule_loop: try { fiber->resume(); } catch (const std::exception &)
\* { log } catch (...) { log }: how an exception of resume() ends
LoopCatch == "caught"

\* control is back in the thread's context: resume() returns (set_this(prev),
\* rethrow of exception_) to user code or to schedule_loop, which catches
\* and releases a terminated fiber; an exception that leaves schedule_loop
\* leaves the thread function and ends the process
ResumeReturn ==
  /\ ~aborted
  /\ UNCHANGED fiberForeign
  /\ resuming # NoResume
  /\ current_fiber_ = MainFiber
  /\ resuming' = NoResume
  /\ LET how == IF ~exception_[resuming.fiber] THEN "none"
                ELSE IF resuming.sched THEN LoopCatch ELSE "throw"
     IN /\ delivered' = [delivered EXCEPT ![resuming.fiber] = how]
        /\ IF resuming.sched /\ how = "throw"
           THEN /\ aborted' = TRUE
                /\ idle_fibers_' = idle_fibers_
           ELSE /\ aborted' = aborted
                /\ IF resuming.sched
                   THEN ReleaseBody(resuming.fiber)
                   ELSE idle_fibers_' = idle_fibers_
  /\ misuse' = NoMisuse
  /\ UNCHANGED <<state_, callback_, exception_, current_fiber_, transitions>>

\* Fiber::reset(func)
ResetBody(f, func) ==
  IF state_[f] # "Terminated"
  THEN /\ aborted' = TRUE
       /\ misuse' = [call |-> "reset_not_terminated", outcome |-> "assert"]
       /\ UNCHANGED <<state_, callback_, exception_, transitions>>
  ELSE /\ misuse' = NoMisuse
       /\ state_' = [state_ EXCEPT ![f] = "Ready"]
       /\ callback_' = [callback_ EXCEPT ![f] = func]
       /\ exception_' = [exception_ EXCEPT ![f] = FALSE]
       /\ Record(state_')
       /\ aborted' = aborted

Reset(f, func) ==
  /\ ~aborted
  /\ UNCHANGED fiberForeign
  /\ InMain \/ \E g \in UserFibers : InFiber(g)
  /\ f \in UserFibers /\ state_[f] # "Unborn"
  /\ ResetBody(f, func)
  /\ UNCHANGED <<current_fiber_, resuming, idle_fibers_, delivered>>

(*************************************************************************)
(* FiberPool (src/src/scheduling/fiber_pool.cc)                          *)
(*************************************************************************)
\* FiberPool::acquire(func)
Acquire(func) ==
  /\ ~aborted
  /\ UNCHANGED fiberForeign
  /\ InMain \/ \E g \in UserFibers : InFiber(g)
  /\ IF idle_fibers_ # <<>>
     THEN /\ idle_fibers_' = Tail(idle_fibers_)
          /\ ResetBody(Head(idle_fibers_), func)
     ELSE \E f \in UserFibers :
            /\ state_[f] = "Unborn"
            /\ \A g \in UserFibers : g < f => state_[g] # "Unborn"
            /\ state_' = [state_ EXCEPT ![f] = "Ready"]
            /\ callback_' = [callback_ EXCEPT ![f] = func]
            /\ Record(state_')
            /\ misuse' = NoMisuse
            /\ UNCHANGED <<exception_, idle_fibers_, aborted>>
  /\ UNCHANGED <<current_fiber_, resuming, delivered>>

\* FiberPool::release(fiber) called by user code
Release(f) ==
  /\ ~aborted
  /\ UNCHANGED fiberForeign
  /\ InMain \/ \E g \in UserFibers : InFiber(g)
  /\ f \in UserFibers /\ state_[f] # "Unborn"
  /\ ReleaseBody(f)
  /\ idle_fibers_' # idle_fibers_
  /\ misuse' = NoMisuse
  /\ UNCHANGED <<state_, callback_, exception_, current_fiber_, resuming,
                 aborted, transitions, delivered>>

FiberNext ==
  \/ \E f \in UserFibers, func \in Callables : Construct(f, func)
  \/ \E f \in UserFibers : Resume(f)
  \/ \E f \in UserFibers : Dispatch(f)
  \/ Yield
  \/ MainFuncEnd
  \/ ResumeReturn
  \/ \E f \in UserFibers, func \in Callables : Reset(f, func)
  \/ \E func \in Callables : Acquire(func)
  \/ \E f \in UserFibers : Release(f)


(*************************************************************************)
(* TaskQueue (src/src/scheduling/task_queue.cc) and Scheduler            *)
(* (src/src/scheduling/scheduler.cc)                                     *)
(*************************************************************************)
Workers == 1..NumWorkers
Clients == {"main", "producer"}
NoThread == 0
NoTask == 0

\* size_ is a size_t; the model keeps 16 of its 64 bits
SizeModulus == 2^16

\* tasks_.front(); tasks_.pop() taken from the wrong end
TakeTask_Back(q) == [task |-> q[Len(q)], rest |-> SubSeq(q, 1, Len(q) - 1)]

\* tasks_.front(); tasks_.pop() (task_queue.cc:33-34, 64-65)
TakeTask(q) == [task |-> Head(q), rest |-> Tail(q)]

SchedInit ==
  /\ tasks_ = <<>>
  /\ size_ = 0
  /\ stopped_ = FALSE
  /\ spinlock_ = NoThread
  /\ cv_ = {}
  /\ stopping_ = FALSE
  /\ threads_ = {}
  /\ wpc = [w \in Workers |-> "none"]
  /\ wtask = [w \in Workers |-> NoTask]
  /\ cpc = [c \in Clients |-> "idle"]
  /\ nextTask = 0
  /\ executed = {}
  /\ pushOrder = <<>>
  /\ popOrder = <<>>
  /\ calls = <<>>
  /\ spawned = 0
  /\ joined = 0
  /\ atStop = [called |-> FALSE, started |-> FALSE, pushed |-> {}]

\* ---- TaskQueue::push -----------------------------------------------------
\* { lock_guard; tasks_.push(task); }
PushLocked(c) ==
  /\ cpc[c] = "idle"
  /\ nextTask < MaxTasks
  /\ spinlock_ = NoThread
  /\ nextTask' = nextTask + 1
  /\ tasks_' = Append(tasks_, nextTask + 1)
  /\ pushOrder' = Append(pushOrder, nextTask + 1)
  /\ cpc' = [cpc EXCEPT ![c] = "push_size"]
  /\ UNCHANGED <<size_, stopped_, spinlock_, cv_, stopping_, threads_, wpc,
                 wtask, executed, popOrder, calls, spawned, joined, atStop>>
  /\ UNCHANGED schedForeign

\* size_.fetch_add(1)
PushSize(c) ==
  /\ cpc[c] = "push_size"
  /\ size_' = (size_ + 1) % SizeModulus
  /\ cpc' = [cpc EXCEPT ![c] = "push_notify"]
  /\ UNCHANGED <<tasks_, stopped_, spinlock_, cv_, stopping_, threads_, wpc,
                 wtask, nextTask, executed, pushOrder, popOrder, calls,
                 spawned, joined, atStop>>
  /\ UNCHANGED schedForeign

\* cv_.notify_one(): one blocked thread, if there is any, leaves the wait and
\* goes for the lock again
PushNotify(c) ==
  /\ cpc[c] = "push_notify"
  /\ cpc' = [cpc EXCEPT ![c] = "idle"]
  /\ IF cv_ = {}
     THEN UNCHANGED <<cv_, wpc>>
     ELSE \E w \in cv_ :
            /\ cv_' = cv_ \ {w}
            /\ wpc' = [wpc EXCEPT ![w] = "pop_lock"]
  /\ UNCHANGED <<tasks_, size_, stopped_, spinlock_, stopping_, threads_,
                 wtask, nextTask, executed, pushOrder, popOrder, calls,
                 spawned, joined, atStop>>
  /\ UNCHANGED schedForeign

\* ---- Scheduler::schedule_loop and TaskQueue::pop, one worker thread ------
\* while (!stopping_.load())
WorkerLoop(w) ==
  /\ wpc[w] = "loop"
  /\ wpc' = [wpc EXCEPT ![w] = IF stopping_ THEN "exited" ELSE "try_pop"]
  /\ UNCHANGED <<tasks_, size_, stopped_, spinlock_, cv_, stopping_, threads_,
                 wtask, cpc, nextTask, executed, pushOrder, popOrder, calls,
                 spawned, joined, atStop>>
  /\ UNCHANGED schedForeign

\* try_pop: if (size_.load() == 0) return false;
TryPopCheck(w) ==
  /\ wpc[w] = "try_pop"
  /\ wpc' = [wpc EXCEPT ![w] = IF size_ = 0 THEN "pop_lock" ELSE "try_lock"]
  /\ UNCHANGED <<tasks_, size_, stopped_, spinlock_, cv_, stopping_, threads_,
                 wtask, cpc, nextTask, executed, pushOrder, popOrder, calls,
                 spawned, joined, atStop>>
  /\ UNCHANGED schedForeign

\* the removal both try_pop and pop make under the lock
Remove(w) ==
  /\ tasks_' = TakeTask(tasks_).rest
  /\ wtask' = [wtask EXCEPT ![w] = TakeTask(tasks_).task]
  /\ popOrder' = Append(popOrder, TakeTask(tasks_).task)
  /\ size_' = (size_ - 1) % SizeModulus

\* try_pop: lock_guard; if (!tasks_.empty()) { take; size_.fetch_sub(1); }
TryPopLocked(w) ==
  /\ wpc[w] = "try_lock"
  /\ spinlock_ = NoThread
  /\ IF tasks_ # <<>>
     THEN /\ Remove(w)
          /\ wpc' = [wpc EXCEPT ![w] = "exec"]
     ELSE /\ wpc' = [wpc EXCEPT ![w] = "pop_lock"]
          /\ UNCHANGED <<tasks_, wtask, popOrder, size_>>
  /\ UNCHANGED <<stopped_, spinlock_, cv_, stopping_, threads_, cpc, nextTask,
                 executed, pushOrder, calls, spawned, joined, atStop>>
  /\ UNCHANGED schedForeign

\* pop: unique_lock; cv_.wait evaluates stopped_ || !tasks_.empty() with the
\* lock held. True: take a task or return false (break of schedule_loop).
\* False: the thread still holds the lock and is about to block.
PopLocked(w) ==
  /\ wpc[w] = "pop_lock"
  /\ spinlock_ = NoThread
  /\ IF tasks_ # <<>>
     THEN /\ Remove(w)
          /\ wpc' = [wpc EXCEPT ![w] = "exec"]
          /\ UNCHANGED spinlock_
     ELSE IF stopped_
     THEN /\ wpc' = [wpc EXCEPT ![w] = "exited"]
          /\ UNCHANGED <<tasks_, wtask, popOrder, size_, spinlock_>>
     ELSE /\ wpc' = [wpc EXCEPT ![w] = "pop_wait"]
          /\ spinlock_' = w
          /\ UNCHANGED <<tasks_, wtask, popOrder, size_>>
  /\ UNCHANGED <<stopped_, cv_, stopping_, threads_, cpc, nextTask, executed,
                 pushOrder, calls, spawned, joined, atStop>>
  /\ UNCHANGED schedForeign

\* cv_.wait: release the lock and block, in one step
PopBlock(w) ==
  /\ wpc[w] = "pop_wait"
  /\ spinlock_' = NoThread
  /\ cv_' = cv_ \cup {w}
  /\ wpc' = [wpc EXCEPT ![w] = "blocked"]
  /\ UNCHANGED <<tasks_, size_, stopped_, stopping_, threads_, wtask, cpc,
                 nextTask, executed, pushOrder, popOrder, calls, spawned,
                 joined, atStop>>
  /\ UNCHANGED schedForeign

\* a condition variable may wake without a notify; the predicate is evaluated
\* again
SpuriousWake(w) ==
  /\ wpc[w] = "blocked"
  /\ w \in cv_
  /\ cv_' = cv_ \ {w}
  /\ wpc' = [wpc EXCEPT ![w] = "pop_lock"]
  /\ UNCHANGED <<tasks_, size_, stopped_, spinlock_, stopping_, threads_,
                 wtask, cpc, nextTask, executed, pushOrder, popOrder, calls,
                 spawned, joined, atStop>>
  /\ UNCHANGED schedForeign

\* schedule_loop: fiber->resume() runs the task; the terminated fiber goes
\* back to the pool
WorkerExec(w) ==
  /\ wpc[w] = "exec"
  /\ executed' = executed \cup {wtask[w]}
  /\ wtask' = [wtask EXCEPT ![w] = NoTask]
  /\ wpc' = [wpc EXCEPT ![w] = "loop"]
  /\ UNCHANGED <<tasks_, size_, stopped_, spinlock_, cv_, stopping_, threads_,
                 cpc, nextTask, pushOrder, popOrder, calls, spawned, joined,
                 atStop>>
  /\ UNCHANGED schedForeign

\* ---- Scheduler::start ----------------------------------------------------
Start ==
  /\ cpc["main"] = "idle"
  /\ Len(calls) < MaxCalls
  /\ calls' = Append(calls, "start")
  /\ IF threads_ # {}
     THEN UNCHANGED <<threads_, wpc, spawned>>
     ELSE /\ threads_' = Workers
          /\ wpc' = [w \in Workers |-> "loop"]
          /\ spawned' = spawned + NumWorkers
  /\ UNCHANGED <<tasks_, size_, stopped_, spinlock_, cv_, stopping_, wtask,
                 cpc, nextTask, executed, pushOrder, popOrder, joined, atStop>>
  /\ UNCHANGED schedForeign

\* ---- Scheduler::stop -----------------------------------------------------
\* if (stopping_.exchange(true)) return;
StopBegin ==
  /\ cpc["main"] = "idle"
  /\ Len(calls) < MaxCalls
  /\ stopping_' = TRUE
  /\ IF stopping_
     THEN /\ calls' = Append(calls, "stop")
          /\ UNCHANGED <<cpc, atStop>>
     ELSE /\ cpc' = [cpc EXCEPT !["main"] = "stop_store"]
          /\ atStop' = [called |-> TRUE, started |-> threads_ # {},
                        pushed |-> {pushOrder[i] : i \in 1..Len(pushOrder)}]
          /\ UNCHANGED calls
  /\ UNCHANGED <<tasks_, size_, stopped_, spinlock_, cv_, threads_, wpc, wtask,
                 nextTask, executed, pushOrder, popOrder, spawned, joined>>
  /\ UNCHANGED schedForeign

\* TaskQueue::stop: stopped_.store(true), without the lock
StopStore ==
  /\ cpc["main"] = "stop_store"
  /\ stopped_' = TRUE
  /\ cpc' = [cpc EXCEPT !["main"] = "stop_notify"]
  /\ UNCHANGED <<tasks_, size_, spinlock_, cv_, stopping_, threads_, wpc, wtask,
                 nextTask, executed, pushOrder, popOrder, calls, spawned,
                 joined, atStop>>
  /\ UNCHANGED schedForeign

\* TaskQueue::stop: cv_.notify_all() wakes the threads that are blocked now
StopNotify ==
  /\ cpc["main"] = "stop_notify"
  /\ cv_' = {}
  /\ wpc' = [w \in Workers |-> IF w \in cv_ THEN "pop_lock" ELSE wpc[w]]
  /\ cpc' = [cpc EXCEPT !["main"] = "join"]
  /\ UNCHANGED <<tasks_, size_, stopped_, spinlock_, stopping_, threads_, wtask,
                 nextTask, executed, pushOrder, popOrder, calls, spawned,
                 joined, atStop>>
  /\ UNCHANGED schedForeign

\* for every thread of threads_, in order: thread->join()
StopJoin ==
  /\ cpc["main"] = "join"
  /\ threads_ # {}
  /\ LET w == CHOOSE x \in threads_ : \A y \in threads_ : x <= y
     IN /\ wpc[w] = "exited"
        /\ wpc' = [wpc EXCEPT ![w] = "none"]
        /\ threads_' = threads_ \ {w}
        /\ joined' = joined + 1
  /\ UNCHANGED <<tasks_, size_, stopped_, spinlock_, cv_, stopping_, wtask, cpc,
                 nextTask, executed, pushOrder, popOrder, calls, spawned,
                 atStop>>
  /\ UNCHANGED schedForeign

\* threads_.clear(); stop() returns
StopReturn ==
  /\ cpc["main"] = "join"
  /\ threads_ = {}
  /\ cpc' = [cpc EXCEPT !["main"] = "idle"]
  /\ calls' = Append(calls, "stop")
  /\ UNCHANGED <<tasks_, size_, stopped_, spinlock_, cv_, stopping_, threads_,
                 wpc, wtask, nextTask, executed, pushOrder, popOrder, spawned,
                 joined, atStop>>
  /\ UNCHANGED schedForeign

WorkerStep(w) ==
  \/ WorkerLoop(w)
  \/ TryPopCheck(w)
  \/ TryPopLocked(w)
  \/ PopLocked(w)
  \/ PopBlock(w)
  \/ WorkerExec(w)

StopStep == StopStore \/ StopNotify \/ StopJoin \/ StopReturn

SchedNext ==
  \/ \E c \in Clients : PushLocked(c)
  \/ \E c \in Clients : PushSize(c)
  \/ \E c \in Clients : PushNotify(c)
  \/ \E w \in Workers : WorkerLoop(w)
  \/ \E w \in Workers : TryPopCheck(w)
  \/ \E w \in Workers : TryPopLocked(w)
  \/ \E w \in Workers : PopLocked(w)
  \/ \E w \in Workers : PopBlock(w)
  \/ \E w \in Workers : SpuriousWake(w)
  \/ \E w \in Workers : WorkerExec(w)
  \/ Start
  \/ StopBegin
  \/ StopStore
  \/ StopNotify
  \/ StopJoin
  \/ StopReturn

(*************************************************************************)
(* IoScheduler (src/src/io/io_scheduler.cc), FdContext                   *)
(* (src/src/io/fd_context.cc), TimerManager (src/src/timer), the hooked  *)
(* calls (src/src/hook/hook.cc)                                          *)
(*                                                                       *)
(* Coroutine f makes one hooked call: a read on its own socket (fd f) or *)
(* a sleep; its timeout timer or sleep timer is timer f. The task queue  *)
(* is taken at the granularity of its lock (push and pop are one step).  *)
(*************************************************************************)
\* the reactor thread of IoScheduler::start
IoThread == NumWorkers + 1

\* static_cast<uint64_t>(-1), what do_io_hook takes for "no timeout": all bits
\* set (the model keeps 16 of the 64 bits)
NoTimeout == 2^16 - 1

Idle == [kind |-> "idle", id |-> 0]
FiberTask(f) == [kind |-> "fiber", id |-> f]
TimerTask(t) == [kind |-> "timer", id |-> t]
\* a worker inside the timeout lambda, before its cancel_event call
CancelTask(t) == [kind |-> "cancel", id |-> t]

NoHook == [op |-> "none", pc |-> "none", ret |-> "none", timer |-> FALSE,
           timeout |-> 0]

InQueue(f) == \E i \in 1..Len(tasks_) : tasks_[i] = FiberTask(f)

\* Scheduler::get_this(): the thread-local scheduler, which only the worker
\* threads set (set_this(this) in the thread body of Scheduler::start)
SchedulerOfThread(thread) ==
  IF thread \in Workers THEN "scheduler" ELSE "nullptr"

\* the poller reports the fd: it watches Read on it and there is data
EpollReports(fd) == "kRead" \in epoll_[fd] /\ readable[fd]

IoInit ==
  /\ now = 0
  /\ timers_ = {}
  /\ next_time_ = [t \in UserFibers |-> 0]
  /\ cancelled_ = [t \in UserFibers |-> FALSE]
  /\ tinfo = [f \in UserFibers |-> "0"]
  /\ events_ = [fd \in UserFibers |-> {}]
  /\ read_ctx_ = [fd \in UserFibers |-> NoFiber]
  /\ epoll_ = [fd \in UserFibers |-> {}]
  /\ readable = [fd \in UserFibers |-> FALSE]
  /\ recv_timeout_ = [fd \in UserFibers |-> 0]
  /\ hook = [f \in UserFibers |-> NoHook]
  /\ wrun = [w \in Workers |-> Idle]
  /\ configured = {}
  /\ triggered = {}
  /\ timerRan = {}

\* the coroutine's body is being executed by a worker
OnWorker(f) ==
  /\ ~aborted
  /\ state_[f] = "Running"
  /\ \E w \in Workers : wrun[w] = FiberTask(f)

\* the hooked call returns ret and the coroutine's callable ends: main_func
\* sets Terminated and the worker goes back to its loop
FinishWith(f, ret) ==
  /\ hook' = [hook EXCEPT ![f].pc = "done", ![f].ret = ret]
  /\ state_' = [state_ EXCEPT ![f] = "Terminated"]
  /\ Record(state_')
  /\ wrun' = [w \in Workers |-> IF wrun[w] = FiberTask(f) THEN Idle ELSE wrun[w]]

\* FdContext::trigger_event(kRead) called on the given thread
TriggerEvent(fd, thread) ==
  IF "kRead" \notin events_[fd]
  THEN UNCHANGED <<events_, read_ctx_, tasks_, triggered>>
  ELSE /\ events_' = [events_ EXCEPT ![fd] = @ \ {"kRead"}]
       /\ read_ctx_' = [read_ctx_ EXCEPT ![fd] = NoFiber]
       /\ triggered' = triggered \cup ({read_ctx_[fd]} \ {NoFiber})
       /\ IF read_ctx_[fd] # NoFiber /\ SchedulerOfThread(thread) # "nullptr"
          THEN tasks_' = Append(tasks_, FiberTask(read_ctx_[fd]))
          ELSE UNCHANGED tasks_

\* IoScheduler::cancel_event(fd, kRead) called on the given thread:
\* FdContext::cancel_event, then the poller is told the remaining events
CancelEvent(fd, thread) ==
  /\ IF "kRead" \notin events_[fd]
     THEN UNCHANGED <<events_, read_ctx_, tasks_>>
     ELSE /\ events_' = [events_ EXCEPT ![fd] = @ \ {"kRead"}]
          /\ read_ctx_' = [read_ctx_ EXCEPT ![fd] = NoFiber]
          /\ IF read_ctx_[fd] # NoFiber /\ SchedulerOfThread(thread) # "nullptr"
             THEN tasks_' = Append(tasks_, FiberTask(read_ctx_[fd]))
             ELSE UNCHANGED tasks_
  /\ epoll_' = [epoll_ EXCEPT ![fd] = events_'[fd]]

\* ---- the user's calls ----------------------------------------------------
\* hooked setsockopt(fd, SOL_SOCKET, SO_RCVTIMEO, ms)
Setsockopt(fd, ms) ==
  /\ ~aborted
  /\ hook[fd].op = "none"
  /\ fd \notin configured
  /\ recv_timeout_' = [recv_timeout_ EXCEPT ![fd] = ms]
  /\ configured' = configured \cup {fd}
  /\ UNCHANGED <<now, timers_, next_time_, cancelled_, tinfo, events_,
                 read_ctx_, epoll_, readable, hook, wrun, triggered, timerRan,
                 state_, tasks_, aborted, transitions>>
  /\ UNCHANGED ioForeign

\* IoScheduler::schedule(fiber) of a new coroutine whose callable makes the
\* hooked call op ("read" on fd f, or "sleep" of ms milliseconds)
IoSchedule(f, op, ms) ==
  /\ ~aborted
  /\ state_[f] = "Unborn"
  /\ state_' = [state_ EXCEPT ![f] = "Ready"]
  /\ Record(state_')
  /\ hook' = [hook EXCEPT ![f] = [op |-> op, pc |-> "entry", ret |-> "none",
                                  timer |-> FALSE, timeout |-> ms]]
  /\ tasks_' = Append(tasks_, FiberTask(f))
  /\ UNCHANGED <<now, timers_, next_time_, cancelled_, tinfo, events_,
                 read_ctx_, epoll_, readable, recv_timeout_, wrun, configured,
                 triggered, timerRan, aborted>>
  /\ UNCHANGED ioForeign

\* ---- do_io_hook, executed by coroutine f ---------------------------------
\* timeout = fd_ctx->get_timeout(SO_RCVTIMEO) on entry; ret = fun(fd, ...):
\* data, or -1 with EAGAIN
DoIoHookCall(f) ==
  /\ OnWorker(f)
  /\ hook[f].op = "read"
  /\ hook[f].pc \in {"entry", "call"}
  /\ LET timeout == IF hook[f].pc = "entry" THEN recv_timeout_[f]
                                            ELSE hook[f].timeout
     IN IF readable[f]
        THEN /\ readable' = [readable EXCEPT ![f] = FALSE]
             /\ FinishWith(f, "ok")
        ELSE /\ hook' = [hook EXCEPT ![f].pc = "add_timer",
                                     ![f].timeout = timeout]
             /\ UNCHANGED <<readable, state_, transitions, wrun>>
  /\ UNCHANGED <<now, timers_, next_time_, cancelled_, tinfo, events_,
                 read_ctx_, epoll_, recv_timeout_, configured, triggered,
                 timerRan, tasks_, aborted>>
  /\ UNCHANGED ioForeign

\* if (timeout != (uint64_t)-1) timer = io_scheduler->add_timer(timeout, ...)
DoIoHookAddTimer(f) ==
  /\ OnWorker(f)
  /\ hook[f].pc = "add_timer"
  /\ IF hook[f].timeout # NoTimeout
     THEN /\ timers_' = timers_ \cup {f}
          /\ next_time_' = [next_time_ EXCEPT ![f] = now + hook[f].timeout]
          /\ cancelled_' = [cancelled_ EXCEPT ![f] = FALSE]
          /\ hook' = [hook EXCEPT ![f].pc = "add_event", ![f].timer = TRUE]
     ELSE /\ hook' = [hook EXCEPT ![f].pc = "add_event"]
          /\ UNCHANGED <<timers_, next_time_, cancelled_>>
  /\ UNCHANGED <<now, tinfo, events_, read_ctx_, epoll_, readable,
                 recv_timeout_, wrun, configured, triggered, timerRan,
                 state_, tasks_, aborted, transitions>>
  /\ UNCHANGED ioForeign

\* io_scheduler->add_event(fd, event): the current coroutine becomes the
\* waiter, the event joins events_, the poller watches it
DoIoHookAddEvent(f) ==
  /\ OnWorker(f)
  /\ hook[f].pc = "add_event"
  /\ read_ctx_' = [read_ctx_ EXCEPT ![f] = f]
  /\ events_' = [events_ EXCEPT ![f] = @ \cup {"kRead"}]
  /\ epoll_' = [epoll_ EXCEPT ![f] = events_'[f]]
  /\ hook' = [hook EXCEPT ![f].pc = "yield"]
  /\ UNCHANGED <<now, timers_, next_time_, cancelled_, tinfo, readable,
                 recv_timeout_, wrun, configured, triggered, timerRan,
                 state_, tasks_, aborted, transitions>>
  /\ UNCHANGED ioForeign

\* Fiber::yield() of the hooked call: Suspended, back in schedule_loop, which
\* does nothing with a coroutine that is not Terminated
HookYield(f) ==
  /\ OnWorker(f)
  /\ hook[f].pc \in {"yield", "sleep_yield"}
  /\ state_' = [state_ EXCEPT ![f] = YieldState]
  /\ Record(state_')
  /\ wrun' = [w \in Workers |-> IF wrun[w] = FiberTask(f) THEN Idle ELSE wrun[w]]
  /\ hook' = [hook EXCEPT ![f].pc = IF @ = "yield" THEN "resumed"
                                                   ELSE "sleep_resumed"]
  /\ UNCHANGED <<now, timers_, next_time_, cancelled_, tinfo, events_,
                 read_ctx_, epoll_, readable, recv_timeout_, configured,
                 triggered, timerRan, tasks_, aborted>>
  /\ UNCHANGED ioForeign

\* ---- sleep / usleep / nanosleep, executed by coroutine f -----------------
\* io_scheduler->add_timer(ms, [](){})
SleepAddTimer(f) ==
  /\ OnWorker(f)
  /\ hook[f].op = "sleep"
  /\ hook[f].pc = "entry"
  /\ timers_' = timers_ \cup {f}
  /\ next_time_' = [next_time_ EXCEPT ![f] = now + hook[f].timeout]
  /\ cancelled_' = [cancelled_ EXCEPT ![f] = FALSE]
  /\ hook' = [hook EXCEPT ![f].pc = "sleep_yield", ![f].timer = TRUE]
  /\ UNCHANGED <<now, tinfo, events_, read_ctx_, epoll_, readable,
                 recv_timeout_, wrun, configured, triggered, timerRan,
                 state_, tasks_, aborted, transitions>>
  /\ UNCHANGED ioForeign

\* ---- the hooked call after its yield, executed by coroutine f ------------
\* sleep: return 0. do_io_hook: if (timer) timer->cancel(); if
\* (tinfo->cancelled) return -1 with that errno; else call fun again
HookResumed(f) ==
  /\ OnWorker(f)
  /\ hook[f].pc \in {"resumed", "sleep_resumed"}
  /\ IF hook[f].pc = "sleep_resumed"
     THEN /\ FinishWith(f, "0")
          /\ UNCHANGED cancelled_
     ELSE /\ cancelled_' = [cancelled_ EXCEPT ![f] = @ \/ hook[f].timer]
          /\ IF tinfo[f] # "0"
             THEN FinishWith(f, tinfo[f])
             ELSE /\ hook' = [hook EXCEPT ![f].pc = "call"]
                  /\ UNCHANGED <<state_, transitions, wrun>>
  /\ UNCHANGED <<now, timers_, next_time_, tinfo, events_, read_ctx_, epoll_,
                 readable, recv_timeout_, configured, triggered, timerRan,
                 tasks_, aborted>>
  /\ UNCHANGED ioForeign

\* ---- a worker thread -----------------------------------------------------
\* schedule_loop: pop a task; fiber->resume(), whose assert stops the process
\* when the coroutine is Running or Terminated
IoDispatch(w) ==
  /\ ~aborted
  /\ wrun[w] = Idle
  /\ tasks_ # <<>>
  /\ tasks_' = TakeTask(tasks_).rest
  /\ wrun' = [wrun EXCEPT ![w] = TakeTask(tasks_).task]
  /\ LET task == TakeTask(tasks_).task
     IN IF task.kind # "fiber"
        THEN UNCHANGED <<state_, transitions, aborted>>
        ELSE IF state_[task.id] \in {"Running", "Terminated"}
        THEN /\ aborted' = TRUE
             /\ UNCHANGED <<state_, transitions>>
        ELSE /\ state_' = [state_ EXCEPT ![task.id] = "Running"]
             /\ Record(state_')
             /\ UNCHANGED aborted
  /\ UNCHANGED <<now, timers_, next_time_, cancelled_, tinfo, events_,
                 read_ctx_, epoll_, readable, recv_timeout_, hook, configured,
                 triggered, timerRan>>
  /\ UNCHANGED ioForeign

\* the closure of list_expired_callbacks runs Timer::execute: nothing when
\* cancelled_; else callback_(), which is empty for a sleep and for a hooked
\* read is the lambda up to it->cancelled = ETIMEDOUT
TimerExecute(w) ==
  /\ ~aborted
  /\ wrun[w].kind = "timer"
  /\ LET t == wrun[w].id
     IN IF cancelled_[t]
        THEN /\ wrun' = [wrun EXCEPT ![w] = Idle]
             /\ UNCHANGED <<tinfo, timerRan>>
        ELSE /\ timerRan' = timerRan \cup {t}
             /\ IF hook[t].op = "sleep" \/ hook[t].pc = "done" \/ tinfo[t] # "0"
                THEN /\ wrun' = [wrun EXCEPT ![w] = Idle]
                     /\ UNCHANGED tinfo
                ELSE /\ tinfo' = [tinfo EXCEPT ![t] = "ETIMEDOUT"]
                     /\ wrun' = [wrun EXCEPT ![w] = CancelTask(t)]
  /\ UNCHANGED <<now, timers_, next_time_, cancelled_, events_, read_ctx_,
                 epoll_, readable, recv_timeout_, hook, configured, triggered,
                 state_, tasks_, aborted, transitions>>
  /\ UNCHANGED ioForeign

\* the rest of the lambda: io_scheduler->cancel_event(fd, event)
TimerCancelEvent(w) ==
  /\ ~aborted
  /\ wrun[w].kind = "cancel"
  /\ CancelEvent(wrun[w].id, w)
  /\ wrun' = [wrun EXCEPT ![w] = Idle]
  /\ UNCHANGED <<now, timers_, next_time_, cancelled_, tinfo, readable,
                 recv_timeout_, hook, configured, triggered, timerRan,
                 state_, aborted, transitions>>
  /\ UNCHANGED ioForeign

\* ---- the reactor thread (io_thread_func) ---------------------------------
\* an fd the poller reports: fd_ctx->trigger_event(kRead)
IoThreadTrigger(fd) ==
  /\ ~aborted
  /\ EpollReports(fd)
  /\ "kRead" \in events_[fd]
  /\ TriggerEvent(fd, IoThread)
  /\ UNCHANGED <<now, timers_, next_time_, cancelled_, tinfo, epoll_,
                 readable, recv_timeout_, hook, wrun, configured, timerRan,
                 state_, aborted, transitions>>
  /\ UNCHANGED ioForeign

\* the orders in which timers_ (sorted by next_time_, then by address) holds
\* the timers of S
ExpiredOrders(S) ==
  {q \in [1..Cardinality(S) -> S] :
     \A i, j \in 1..Cardinality(S) :
        i < j => q[i] # q[j] /\ next_time_[q[i]] <= next_time_[q[j]]}

\* list_expired_callbacks, then schedule(cb) of every closure it returned
IoThreadTimers ==
  /\ ~aborted
  /\ LET expired == {t \in timers_ : next_time_[t] <= now}
     IN /\ expired # {}
        /\ timers_' = timers_ \ expired
        /\ \E q \in ExpiredOrders({t \in expired : ~cancelled_[t]}) :
              tasks_' = tasks_ \o [i \in DOMAIN q |-> TimerTask(q[i])]
  /\ UNCHANGED <<now, next_time_, cancelled_, tinfo, events_, read_ctx_,
                 epoll_, readable, recv_timeout_, hook, wrun, configured,
                 triggered, timerRan, state_, aborted, transitions>>
  /\ UNCHANGED ioForeign

\* ---- the environment -----------------------------------------------------
\* the peer writes to the socket
DataArrives(fd) ==
  /\ ~aborted
  /\ hook[fd].op = "read"
  /\ hook[fd].pc # "done"
  /\ ~readable[fd]
  /\ readable' = [readable EXCEPT ![fd] = TRUE]
  /\ UNCHANGED <<now, timers_, next_time_, cancelled_, tinfo, events_,
                 read_ctx_, epoll_, recv_timeout_, hook, wrun, configured,
                 triggered, timerRan, state_, tasks_, aborted, transitions>>
  /\ UNCHANGED ioForeign

\* a millisecond passes
Tick ==
  /\ ~aborted
  /\ now < MaxTime
  /\ now' = now + 1
  /\ UNCHANGED <<timers_, next_time_, cancelled_, tinfo, events_, read_ctx_,
                 epoll_, readable, recv_timeout_, hook, wrun, configured,
                 triggered, timerRan, state_, tasks_, aborted, transitions>>
  /\ UNCHANGED ioForeign

IoNext ==
  \/ \E fd \in UserFibers, ms \in 1..MaxTimeout : Setsockopt(fd, ms)
  \/ \E f \in UserFibers : IoSchedule(f, "read", 0)
  \/ \E f \in UserFibers, ms \in 0..MaxTimeout : IoSchedule(f, "sleep", ms)
  \/ \E f \in UserFibers : DoIoHookCall(f)
  \/ \E f \in UserFibers : DoIoHookAddTimer(f)
  \/ \E f \in UserFibers : DoIoHookAddEvent(f)
  \/ \E f \in UserFibers : HookYield(f)
  \/ \E f \in UserFibers : SleepAddTimer(f)
  \/ \E f \in UserFibers : HookResumed(f)
  \/ \E w \in Workers : IoDispatch(w)
  \/ \E w \in Workers : TimerExecute(w)
  \/ \E w \in Workers : TimerCancelEvent(w)
  \/ \E fd \in UserFibers : IoThreadTrigger(fd)
  \/ IoThreadTimers
  \/ \E fd \in UserFibers : DataArrives(fd)
  \/ Tick


(*************************************************************************)
(* FdContext (src/src/io/fd_context.cc) under IoScheduler::add_event,    *)
(* del_event, cancel_event (src/src/io/io_scheduler.cc) called by the    *)
(* worker threads, and trigger_event called by the reactor thread.       *)
(*                                                                       *)
(* One fd. Every add_event brings a new waiter (a callback, or the       *)
(* calling coroutine), numbered from 1. A step is one region the code    *)
(* runs with FdContext::mutex_ held, one call of the poller, or one      *)
(* invocation of a callback.                                             *)
(*************************************************************************)
FdEvents == {"kRead", "kWrite"}
Waiters == 1..MaxRegs
NoWaiter == 0
FdThreads == Workers \cup {IoThread}

\* EventContext after reset_event_context
EmptyCtx == [fiber |-> NoWaiter, callback |-> NoWaiter]

\* a thread outside every call: ev and mask are the locals event, new_events;
\* ctx holds the locals callback, fiber of trigger_event; re is the waiter
\* that the callback invoked by the call has registered
FdIdle == [pc |-> "idle", ev |-> "kRead", ctx |-> EmptyCtx, mask |-> {},
           re |-> NoWaiter]

FdInit ==
  /\ fd_events_ = {}
  /\ fd_ctx_ = [e \in FdEvents |-> EmptyCtx]
  /\ poller_ = [reg |-> FALSE, mask |-> {}]
  /\ fth = [t \in FdThreads |-> FdIdle]
  /\ fired = [r \in Waiters |-> 0]
  /\ nextReg = 0
  /\ lastAdd = [done |-> FALSE, ret |-> 0, ctx |-> EmptyCtx]
  /\ overlapped = FALSE

\* EpollPoller::add_event / mod_event / del_event: the ADD, MOD and DEL of the
\* OS primitive, which refuses to add an fd twice and to change or delete an
\* fd it does not hold
EpollCtl(op, mask) ==
  IF (op = "ADD") = poller_.reg
  THEN [ret |-> -1, poller |-> poller_]
  ELSE [ret |-> 0,
        poller |-> IF op = "DEL" THEN [reg |-> FALSE, mask |-> {}]
                                 ELSE [reg |-> TRUE, mask |-> mask]]

\* thread t enters a call: history of whether two calls ever ran at once
Overlap(t) ==
  overlapped' = (overlapped \/ \E u \in FdThreads \ {t} : fth[u].pc # "idle")

\* the waiter w is invoked (a callback) or handed to scheduler->schedule (a
\* coroutine)
Fire(w) == [fired EXCEPT ![w] = @ + 1]

\* ---- IoScheduler::add_event(fd, event, callback) --------------------------
\* event_ctx.callback = callback, or event_ctx.fiber = the current coroutine
FdAddSlot(t, e, kind) ==
  /\ fth[t].pc = "idle"
  /\ nextReg < MaxRegs
  /\ nextReg' = nextReg + 1
  /\ fd_ctx_' = [fd_ctx_ EXCEPT ![e] =
                   IF kind = "callback" THEN [@ EXCEPT !.callback = nextReg + 1]
                                        ELSE [@ EXCEPT !.fiber = nextReg + 1]]
  /\ fth' = [fth EXCEPT ![t] = [FdIdle EXCEPT !.pc = "add_mask", !.ev = e]]
  /\ UNCHANGED <<fd_events_, poller_, fired, lastAdd>>
  /\ Overlap(t)
  /\ UNCHANGED fdForeign

\* new_events = fd_ctx->add_event(event): events_ with the bit, which is set
\* when it was not
FdAddMask(t) ==
  /\ fth[t].pc = "add_mask"
  /\ fd_events_' = fd_events_ \cup {fth[t].ev}
  /\ fth' = [fth EXCEPT ![t].pc = "add_poll", ![t].mask = fd_events_']
  /\ UNCHANGED <<fd_ctx_, poller_, fired, nextReg, lastAdd>>
  /\ UNCHANGED <<overlapped, fdForeign>>

\* op = (fd_ctx->events() == event) ? ADD : MOD; the poller call; return 0
FdAddPoll(t) ==
  /\ fth[t].pc = "add_poll"
  /\ LET res == EpollCtl(IF fd_events_ = {fth[t].ev} THEN "ADD" ELSE "MOD",
                         fth[t].mask)
     IN /\ poller_' = res.poller
        /\ IF res.ret < 0
           THEN /\ fth' = [fth EXCEPT ![t].pc = "add_undo"]
                /\ UNCHANGED lastAdd
           ELSE /\ fth' = [fth EXCEPT ![t] = FdIdle]
                /\ lastAdd' = [done |-> TRUE, ret |-> 0,
                               ctx |-> fd_ctx_[fth[t].ev]]
  /\ UNCHANGED <<fd_events_, fd_ctx_, fired, nextReg>>
  /\ UNCHANGED <<overlapped, fdForeign>>

\* FdContext::del_event(event)
FdContextDel(e) ==
  /\ fd_events_' = fd_events_ \ {e}
  /\ fd_ctx_' = IF e \in fd_events_ THEN [fd_ctx_ EXCEPT ![e] = EmptyCtx]
                                    ELSE fd_ctx_

\* if (ret < 0) { fd_ctx->del_event(event); return -1; }
FdAddUndo(t) ==
  /\ fth[t].pc = "add_undo"
  /\ FdContextDel(fth[t].ev)
  /\ fth' = [fth EXCEPT ![t] = FdIdle]
  /\ lastAdd' = [done |-> TRUE, ret |-> -1, ctx |-> fd_ctx_'[fth[t].ev]]
  /\ UNCHANGED <<poller_, fired, nextReg>>
  /\ UNCHANGED <<overlapped, fdForeign>>

\* ---- IoScheduler::del_event(fd, event) ------------------------------------
FdDelMask(t, e) ==
  /\ fth[t].pc = "idle"
  /\ FdContextDel(e)
  /\ fth' = [fth EXCEPT ![t] = [FdIdle EXCEPT !.pc = "poll",
                                               !.mask = fd_events_']]
  /\ UNCHANGED <<poller_, fired, nextReg, lastAdd>>
  /\ Overlap(t)
  /\ UNCHANGED fdForeign

\* del_event and cancel_event: new_events == kNone ? del_event(fd)
\*                                                 : mod_event(fd, new_events)
FdPollUpdate(t) ==
  /\ fth[t].pc = "poll"
  /\ poller_' = EpollCtl(IF fth[t].mask = {} THEN "DEL" ELSE "MOD",
                         fth[t].mask).poller
  /\ fth' = [fth EXCEPT ![t] = FdIdle]
  /\ UNCHANGED <<fd_events_, fd_ctx_, fired, nextReg, lastAdd>>
  /\ UNCHANGED <<overlapped, fdForeign>>

\* ---- IoScheduler::cancel_event(fd, event) ---------------------------------
\* FdContext::cancel_event from the lock to the unlock before ctx.callback(),
\* or to its end when the slot holds no callback
FdCancelLock(t, e) ==
  /\ fth[t].pc = "idle"
  /\ IF e \notin fd_events_
     THEN /\ fth' = [fth EXCEPT ![t] = [FdIdle EXCEPT !.pc = "poll",
                                                      !.mask = fd_events_]]
          /\ UNCHANGED <<fd_events_, fd_ctx_, fired>>
     ELSE IF fd_ctx_[e].callback # NoWaiter
     THEN /\ fth' = [fth EXCEPT ![t] = [FdIdle EXCEPT !.pc = "cancel_cb",
                                                      !.ev = e]]
          /\ UNCHANGED <<fd_events_, fd_ctx_, fired>>
     ELSE /\ fired' = IF /\ fd_ctx_[e].fiber # NoWaiter
                         /\ SchedulerOfThread(t) # "nullptr"
                      THEN Fire(fd_ctx_[e].fiber) ELSE fired
          /\ fd_events_' = fd_events_ \ {e}
          /\ fd_ctx_' = [fd_ctx_ EXCEPT ![e] = EmptyCtx]
          /\ fth' = [fth EXCEPT ![t] = [FdIdle EXCEPT !.pc = "poll",
                                                      !.mask = fd_events_']]
  /\ UNCHANGED <<poller_, nextReg, lastAdd>>
  /\ Overlap(t)
  /\ UNCHANGED fdForeign

\* ctx.callback() with the lock released: ctx is a reference to the slot, so
\* what is invoked is what the slot holds now; an empty std::function throws
\* bad_function_call out of cancel_event
FdCancelCallback(t) ==
  /\ fth[t].pc = "cancel_cb"
  /\ LET cb == fd_ctx_[fth[t].ev].callback
     IN IF cb = NoWaiter
        THEN /\ fth' = [fth EXCEPT ![t] = FdIdle]
             /\ UNCHANGED fired
        ELSE /\ fth' = [fth EXCEPT ![t].pc = "cancel_relock"]
             /\ fired' = Fire(cb)
  /\ UNCHANGED <<fd_events_, fd_ctx_, poller_, nextReg, lastAdd>>
  /\ UNCHANGED <<overlapped, fdForeign>>

\* lock.lock(); events_ = events_ & ~event; reset_event_context(ctx)
FdCancelRelock(t) ==
  /\ fth[t].pc = "cancel_relock"
  /\ fd_events_' = fd_events_ \ {fth[t].ev}
  /\ fd_ctx_' = [fd_ctx_ EXCEPT ![fth[t].ev] = EmptyCtx]
  /\ fth' = [fth EXCEPT ![t] = [FdIdle EXCEPT !.pc = "poll",
                                               !.mask = fd_events_']]
  /\ UNCHANGED <<poller_, fired, nextReg, lastAdd>>
  /\ UNCHANGED <<overlapped, fdForeign>>

\* ---- io_thread_func: the poller reports the event --------------------------
\* FdContext::trigger_event up to lock.unlock(): callback and fiber are moved
\* out of the slot and the bit is cleared
FdTriggerLock(e) ==
  /\ fth[IoThread].pc = "idle"
  /\ poller_.reg /\ e \in poller_.mask
  /\ IF e \notin fd_events_
     THEN UNCHANGED <<fd_events_, fd_ctx_, fth>>
     ELSE /\ fd_events_' = fd_events_ \ {e}
          /\ fd_ctx_' = [fd_ctx_ EXCEPT ![e] = EmptyCtx]
          /\ fth' = [fth EXCEPT ![IoThread] =
                       [FdIdle EXCEPT !.pc = "dispatch", !.ev = e,
                                      !.ctx = fd_ctx_[e]]]
  /\ UNCHANGED <<poller_, fired, nextReg, lastAdd>>
  /\ Overlap(IoThread)
  /\ UNCHANGED fdForeign

\* the rest of trigger_event: callback(), or scheduler->schedule(fiber) when
\* the thread has a scheduler; io_thread_func does not call the poller
FdTriggerDispatch ==
  /\ fth[IoThread].pc = "dispatch"
  /\ LET ctx == fth[IoThread].ctx
     IN fired' = IF ctx.callback # NoWaiter THEN Fire(ctx.callback)
                 ELSE IF /\ ctx.fiber # NoWaiter
                         /\ SchedulerOfThread(IoThread) # "nullptr"
                      THEN Fire(ctx.fiber)
                 ELSE fired
  /\ fth' = [fth EXCEPT ![IoThread] = FdIdle]
  /\ UNCHANGED <<fd_events_, fd_ctx_, poller_, nextReg, lastAdd>>
  /\ UNCHANGED <<overlapped, fdForeign>>

\* the callback invoked by cancel_event or trigger_event on thread t calls
\* IoScheduler::add_event(fd, event, callback) for its own event: the slot,
\* the bit, the poller, and on a poller error the undo
FdCallbackAdd(t) ==
  /\ \/ fth[t].pc = "cancel_relock"
     \/ fth[t].pc = "dispatch" /\ fth[t].ctx.callback # NoWaiter
  /\ fth[t].re = NoWaiter
  /\ nextReg < MaxRegs
  /\ nextReg' = nextReg + 1
  /\ LET e == fth[t].ev
         res == EpollCtl(IF fd_events_ \cup {e} = {e} THEN "ADD" ELSE "MOD",
                         fd_events_ \cup {e})
     IN /\ poller_' = res.poller
        /\ IF res.ret < 0
           THEN /\ fd_events_' = fd_events_ \ {e}
                /\ fd_ctx_' = [fd_ctx_ EXCEPT ![e] = EmptyCtx]
                /\ UNCHANGED fth
           ELSE /\ fd_events_' = fd_events_ \cup {e}
                /\ fd_ctx_' = [fd_ctx_ EXCEPT ![e].callback = nextReg + 1]
                /\ fth' = [fth EXCEPT ![t].re = nextReg + 1]
  /\ UNCHANGED <<fired, lastAdd>>
  /\ UNCHANGED <<overlapped, fdForeign>>

FdNext ==
  \/ \E t \in Workers, e \in FdEvents, kind \in {"callback", "fiber"} :
        FdAddSlot(t, e, kind)
  \/ \E t \in Workers : FdAddMask(t)
  \/ \E t \in Workers : FdAddPoll(t)
  \/ \E t \in Workers : FdAddUndo(t)
  \/ \E t \in Workers, e \in FdEvents : FdDelMask(t, e)
  \/ \E t \in Workers : FdPollUpdate(t)
  \/ \E t \in Workers, e \in FdEvents : FdCancelLock(t, e)
  \/ \E t \in Workers : FdCancelCallback(t)
  \/ \E t \in Workers : FdCancelRelock(t)
  \/ \E e \in FdEvents : FdTriggerLock(e)
  \/ FdTriggerDispatch
  \/ \E t \in FdThreads : FdCallbackAdd(t)


(*************************************************************************)
(* Timer (src/src/timer/timer.cc), TimerManager                          *)
(* (src/src/timer/timer_manager.cc), IoScheduler::add_timer and the      *)
(* timer part of io_thread_func (src/src/io/io_scheduler.cc).            *)
(*                                                                       *)
(* A user thread adds timers and calls cancel / refresh / reset on them, *)
(* the reactor thread runs its loop, one worker runs the closures the    *)
(* reactor scheduled. timers_ (a std::set) is its in-order sequence.     *)
(*************************************************************************)
TimerIds == 1..NumTimers
NoTimer == 0

\* the epoll wait of io_thread_func when there is no timer
DefaultWait == 5000

\* a Timer that is not constructed yet; created and touched are history: the
\* time of construction, whether refresh() or reset() was called
NoTimerObject ==
  [made |-> FALSE, next_time_ |-> 0, interval_ |-> 0, recurring_ |-> FALSE,
   cancelled_ |-> FALSE, callback_ |-> FALSE, created |-> 0,
   touched |-> FALSE]

TmInit ==
  /\ tm = [t \in TimerIds |-> NoTimerObject]
  /\ tm_timers_ = <<>>
  /\ tpc = [pc |-> "timeout", timeout |-> 0, start |-> 0]
  /\ upc = NoTimer
  /\ pipe = 0
  /\ tq = <<>>
  /\ texec = [pc |-> "idle", t |-> NoTimer]
  /\ returned = <<>>
  /\ ran = [t \in TimerIds |-> 0]

\* TimerManager::TimerComparator over the timers T: by next_time_, then by
\* address
TimerComparator(T, a, b) ==
  \/ T[a].next_time_ < T[b].next_time_
  \/ T[a].next_time_ = T[b].next_time_ /\ a < b

\* where timers_.insert(t) may put t: the comparator agrees with both
\* neighbours. One place when the set is in order; when a next_time_ was
\* changed under the set, the place depends on the shape of the tree
InsertPlaces(T, s, t) ==
  {p \in 0..Len(s) : /\ p >= 1 => TimerComparator(T, s[p], t)
                     /\ p < Len(s) => TimerComparator(T, t, s[p + 1])}

InsertAt(s, t, p) == SubSeq(s, 1, p) \o <<t>> \o SubSeq(s, p + 1, Len(s))

\* ---- the user thread -----------------------------------------------------
\* IoScheduler::add_timer: timer_manager_->add_timer(timeout, cb, recurring)
AddTimerInsert(t, timeout, recurring) ==
  /\ upc = NoTimer
  /\ ~tm[t].made
  /\ \A u \in TimerIds : u < t => tm[u].made
  /\ LET new == [made |-> TRUE, next_time_ |-> now + timeout,
                 interval_ |-> timeout, recurring_ |-> recurring,
                 cancelled_ |-> FALSE, callback_ |-> TRUE, created |-> now,
                 touched |-> FALSE]
     IN /\ tm' = [tm EXCEPT ![t] = new]
        /\ \E p \in InsertPlaces(tm', tm_timers_, t) :
              tm_timers_' = InsertAt(tm_timers_, t, p)
  /\ upc' = t
  /\ UNCHANGED <<tpc, pipe, tq, texec, returned, ran>>
  /\ UNCHANGED tmForeign

\* IoScheduler::add_timer: wake_up(); return timer
AddTimerWake ==
  /\ upc # NoTimer
  /\ pipe' = 1
  /\ upc' = NoTimer
  /\ UNCHANGED <<tm, tm_timers_, tpc, tq, texec, returned, ran>>
  /\ UNCHANGED tmForeign

\* Timer::cancel()
TimerCancel(t) ==
  /\ upc = NoTimer
  /\ tm[t].made /\ ~tm[t].cancelled_
  /\ tm' = [tm EXCEPT ![t].cancelled_ = TRUE, ![t].callback_ = FALSE]
  /\ UNCHANGED <<tm_timers_, tpc, upc, pipe, tq, texec, returned, ran>>
  /\ UNCHANGED tmForeign

\* refresh() and reset() calls still to be made
MayTouch == Cardinality({t \in TimerIds : tm[t].touched}) < MaxTouches

\* Timer::refresh(): next_time_ = now + interval_, the timer stays where it is
\* in timers_
TimerRefresh(t) ==
  /\ upc = NoTimer
  /\ MayTouch /\ ~tm[t].touched
  /\ tm[t].made
  /\ tm[t].next_time_ # now + tm[t].interval_
  /\ tm' = [tm EXCEPT ![t].next_time_ = now + tm[t].interval_,
                      ![t].touched = TRUE]
  /\ UNCHANGED <<tm_timers_, tpc, upc, pipe, tq, texec, returned, ran>>
  /\ UNCHANGED tmForeign

\* Timer::reset(timeout): interval_ = timeout, next_time_ = now + timeout, the
\* timer stays where it is in timers_
TimerReset(t, timeout) ==
  /\ upc = NoTimer
  /\ MayTouch /\ ~tm[t].touched
  /\ tm[t].made
  /\ tm[t].interval_ # timeout
  /\ tm' = [tm EXCEPT ![t].interval_ = timeout,
                      ![t].next_time_ = now + timeout,
                      ![t].touched = TRUE]
  /\ UNCHANGED <<tm_timers_, tpc, upc, pipe, tq, texec, returned, ran>>
  /\ UNCHANGED tmForeign

\* ---- the reactor thread (io_thread_func) ---------------------------------
\* timeout = timer_manager_->get_next_timeout(); if (timeout < 0) timeout = 5000
IoThreadTimeout ==
  /\ tpc.pc = "timeout"
  /\ LET next_time == tm[Head(tm_timers_)].next_time_
         timeout == IF tm_timers_ = <<>> THEN DefaultWait
                    ELSE IF next_time <= now THEN 0
                    ELSE next_time - now
     IN tpc' = [pc |-> "wait", timeout |-> timeout, start |-> now]
  /\ UNCHANGED <<tm, tm_timers_, upc, pipe, tq, texec, returned, ran>>
  /\ UNCHANGED tmForeign

\* epoll_poller_->wait(timeout, events) returns: the wake pipe is readable,
\* and is drained, or the timeout has passed
IoThreadWait ==
  /\ tpc.pc = "wait"
  /\ pipe > 0 \/ now >= tpc.start + tpc.timeout
  /\ pipe' = 0
  /\ tpc' = [tpc EXCEPT !.pc = "collect"]
  /\ UNCHANGED <<tm, tm_timers_, upc, tq, texec, returned, ran>>
  /\ UNCHANGED tmForeign

\* the loop of list_expired_callbacks with it at the head of right: the
\* possible results [timers, callbacks]
RECURSIVE ListExpired(_, _, _)
ListExpired(left, right, callbacks) ==
  IF right = <<>> \/ tm[Head(right)].next_time_ > now
  THEN {[timers |-> left \o right, callbacks |-> callbacks]}
  ELSE LET timer == Head(right)
           rest == Tail(right)
       IN IF tm[timer].cancelled_
          THEN ListExpired(left, rest, callbacks)
          ELSE IF ~tm[timer].recurring_
          THEN ListExpired(left, rest, Append(callbacks, timer))
          ELSE UNION {
                 IF p <= Len(left)
                 THEN ListExpired(InsertAt(left, timer, p), rest,
                                  Append(callbacks, timer))
                 ELSE ListExpired(left, InsertAt(rest, timer, p - Len(left)),
                                  Append(callbacks, timer))
                 : p \in InsertPlaces(tm, left \o rest, timer)}

\* expired_cbs = timer_manager_->list_expired_callbacks()
IoThreadCollect ==
  /\ tpc.pc = "collect"
  /\ Len(tq) < MaxClosures
  /\ \E res \in ListExpired(<<>>, tm_timers_, <<>>) :
        /\ tm_timers_' = res.timers
        /\ returned' = res.callbacks
  /\ tpc' = [tpc EXCEPT !.pc = "schedule"]
  /\ UNCHANGED <<tm, upc, pipe, tq, texec, ran>>
  /\ UNCHANGED tmForeign

\* for (auto& cb : expired_cbs) schedule(cb): push and wake_up
IoThreadSchedule ==
  /\ tpc.pc = "schedule"
  /\ tq' = tq \o returned
  /\ pipe' = IF returned = <<>> THEN pipe ELSE 1
  /\ returned' = <<>>
  /\ tpc' = [tpc EXCEPT !.pc = "timeout"]
  /\ UNCHANGED <<tm, tm_timers_, upc, texec, ran>>
  /\ UNCHANGED tmForeign

\* ---- the worker: the closure [timer]() { timer->execute(); } --------------
\* if (cancelled_ || !callback_) return;
ExecuteCheck ==
  /\ texec.pc = "idle"
  /\ tq # <<>>
  /\ tq' = Tail(tq)
  /\ texec' = IF tm[Head(tq)].cancelled_ \/ ~tm[Head(tq)].callback_
              THEN [pc |-> "idle", t |-> NoTimer]
              ELSE [pc |-> "call", t |-> Head(tq)]
  /\ UNCHANGED <<tm, tm_timers_, tpc, upc, pipe, returned, ran>>
  /\ UNCHANGED tmForeign

\* callback_(): std::function::operator() reads its target; an empty one
\* throws bad_function_call, which schedule_loop catches
ExecuteLoad ==
  /\ texec.pc = "call"
  /\ texec' = IF tm[texec.t].callback_ THEN [texec EXCEPT !.pc = "invoke"]
                                       ELSE [pc |-> "idle", t |-> NoTimer]
  /\ UNCHANGED <<tm, tm_timers_, tpc, upc, pipe, tq, returned, ran>>
  /\ UNCHANGED tmForeign

\* the target is invoked: the user's callback starts, and when it has
\* returned: if (recurring_) next_time_ += interval_
ExecuteInvoke ==
  /\ texec.pc = "invoke"
  /\ ran' = [ran EXCEPT ![texec.t] = @ + 1]
  /\ tm' = IF tm[texec.t].recurring_
           THEN [tm EXCEPT ![texec.t].next_time_ = @ + tm[texec.t].interval_]
           ELSE tm
  /\ texec' = [pc |-> "idle", t |-> NoTimer]
  /\ UNCHANGED <<tm_timers_, tpc, upc, pipe, tq, returned>>
  /\ UNCHANGED tmForeign

\* a millisecond passes
TimerTick ==
  /\ now < MaxTimerTime
  /\ now' = now + 1
  /\ UNCHANGED <<timers_, next_time_, cancelled_, tinfo, events_, read_ctx_,
                 epoll_, readable, recv_timeout_, hook, wrun, configured,
                 triggered, timerRan, state_, tasks_, aborted, transitions>>
  /\ UNCHANGED ioForeign

TmNext ==
  \/ \E t \in TimerIds, timeout \in 1..MaxInterval, recurring \in BOOLEAN :
        AddTimerInsert(t, timeout, recurring)
  \/ AddTimerWake
  \/ \E t \in TimerIds : TimerCancel(t)
  \/ \E t \in TimerIds : TimerRefresh(t)
  \/ \E t \in TimerIds, timeout \in 1..MaxInterval : TimerReset(t, timeout)
  \/ IoThreadTimeout
  \/ IoThreadWait
  \/ IoThreadCollect
  \/ IoThreadSchedule
  \/ ExecuteCheck
  \/ ExecuteLoad
  \/ ExecuteInvoke
  \/ TimerTick


(*************************************************************************)
(* Shared stack (src/src/runtime/fiber.cc: co_swap, save_stack_buffer)   *)
(*                                                                       *)
(* The coroutines bound to one SharedStackBuffer, resumed by a thread's  *)
(* main or scheduler fiber. The memory of the slot is MaxDepth cells     *)
(* counted from stack_top() downwards; stack_sp_ is the cells between    *)
(* the saved stack pointer and the top, and a save buffer lists the      *)
(* cells from stack_sp_ upwards, in the order memcpy copies them.        *)
(*************************************************************************)
StackFibers == 1..NumStackFibers
\* the threads that resume them: the thread of SpecStack is the first one
StackThreads == 1..NumStackThreads
FirstThread == 1
Cells == 1..MaxDepth
\* stack_sp_ = nullptr
NullSp == 0
\* a cell nobody has written
NoCell == <<NoFiber, 0>>

StackInit ==
  /\ sfib = [f \in StackFibers |->
               [state_ |-> "Ready", stack_sp_ |-> NullSp, save_buffer_ |-> <<>>]]
  /\ slot = [k \in Cells |-> NoCell]
  /\ occupy_fiber_ = NoFiber
  /\ scur = [t \in StackThreads |-> MainFiber]
  /\ atSuspend = [f \in StackFibers |-> <<>>]
  /\ found = [f \in StackFibers |-> <<>>]
  /\ overrun = FALSE

\* the len = stack_bp - stack_sp_ cells from stack_sp_ upwards
LiveBytes(mem, sp) ==
  IF sp = NullSp THEN <<>> ELSE [j \in 1..sp |-> mem[sp - j + 1]]

\* Fiber::save_stack_buffer() of coroutine g: nothing without a stack
\* pointer, else the old buffer is freed and a new one filled
SaveStackBuffer(fibers, mem, g) ==
  IF fibers[g].stack_sp_ = NullSp
  THEN fibers
  ELSE [fibers EXCEPT ![g].save_buffer_ = LiveBytes(mem, fibers[g].stack_sp_)]

\* memcpy(stack_sp_, save_buffer_, save_size_): byte j goes to the cell
\* sp - j + 1 of the slot (above the top when that is none of its cells)
RestoreBytes(mem, sp, buf) ==
  [k \in Cells |-> IF sp - k + 1 \in 1..Len(buf) THEN buf[sp - k + 1] ELSE mem[k]]

\* Fiber::resume() from the main fiber, with co_swap(main, f): f becomes
\* the occupant, another occupant is saved, and f's save buffer, if it has
\* one, is copied to f's stack_sp_ (the main fiber is not on the slot)
StackResume(t, f) ==
  /\ ~overrun
  /\ scur[t] = MainFiber
  /\ sfib[f].state_ \in {"Ready", "Suspended"}
  /\ LET occ == occupy_fiber_
         saved == IF occ # NoFiber /\ occ # f
                  THEN SaveStackBuffer(sfib, slot, occ) ELSE sfib
         buf == saved[f].save_buffer_
         mem == IF buf # <<>> THEN RestoreBytes(slot, sfib[f].stack_sp_, buf)
                              ELSE slot
     IN /\ sfib' = [saved EXCEPT ![f].state_ = "Running"]
        /\ slot' = mem
        /\ overrun' = (buf # <<>> /\ Len(buf) > sfib[f].stack_sp_)
        /\ found' = [found EXCEPT ![f] =
                       IF sfib[f].state_ = "Suspended"
                       THEN LiveBytes(mem, sfib[f].stack_sp_) ELSE <<>>]
  /\ occupy_fiber_' = f
  /\ scur' = [scur EXCEPT ![t] = f]
  /\ UNCHANGED atSuspend
  /\ UNCHANGED stackForeign

\* the running coroutine, whose frames now reach d cells deep and hold the
\* value v, calls Fiber::yield(): kSuspended, then co_swap(f, main) records
\* its stack pointer; the main fiber is on no slot
StackYield(t, f, d, v) ==
  /\ ~overrun
  /\ scur[t] = f
  /\ sfib[f].state_ = "Running"
  /\ slot' = [k \in Cells |-> IF k <= d THEN <<f, v>> ELSE slot[k]]
  /\ sfib' = [sfib EXCEPT ![f].state_ = "Suspended", ![f].stack_sp_ = d]
  /\ atSuspend' = [atSuspend EXCEPT ![f] = LiveBytes(slot', d)]
  /\ found' = [found EXCEPT ![f] = LiveBytes(slot', d)]
  /\ scur' = [scur EXCEPT ![t] = MainFiber]
  /\ UNCHANGED <<occupy_fiber_, overrun>>
  /\ UNCHANGED stackForeign

\* the callable returns in Fiber::main_func: kTerminated, the occupancy is
\* given up, co_swap(f, main)
StackFinish(t, f, d) ==
  /\ ~overrun
  /\ scur[t] = f
  /\ sfib[f].state_ = "Running"
  /\ sfib' = [sfib EXCEPT ![f].state_ = "Terminated", ![f].stack_sp_ = d]
  /\ occupy_fiber_' = IF occupy_fiber_ = f THEN NoFiber ELSE occupy_fiber_
  /\ atSuspend' = [atSuspend EXCEPT ![f] = <<>>]
  /\ found' = [found EXCEPT ![f] = <<>>]
  /\ scur' = [scur EXCEPT ![t] = MainFiber]
  /\ UNCHANGED <<slot, overrun>>
  /\ UNCHANGED stackForeign

\* Fiber::reset(func) of a terminated coroutine: the save buffer is freed
StackReset(f) ==
  /\ ~overrun
  /\ sfib[f].state_ = "Terminated"
  /\ sfib' = [sfib EXCEPT ![f].state_ = "Ready", ![f].save_buffer_ = <<>>]
  /\ occupy_fiber_' = IF occupy_fiber_ = f THEN NoFiber ELSE occupy_fiber_
  /\ UNCHANGED <<slot, scur, atSuspend, found, overrun>>
  /\ UNCHANGED stackForeign

\* co_swap: curr_on_same_stack, for a curr that is the main fiber (on no
\* slot) or one of the coroutines of the slot
CurrOnSameStack(curr) == curr \in StackFibers

\* the running coroutine g, whose frames reach d cells deep and hold the
\* value v, calls f->resume(): f is kRunning, co_swap(g, f) records g's stack
\* pointer, makes f the occupant, saves the former occupant, and copies f's
\* save buffer back only when curr is not on the same slot
NestedResume(t, g, f, d, v) ==
  /\ ~overrun
  /\ scur[t] = g /\ g # f
  /\ sfib[g].state_ = "Running"
  /\ sfib[f].state_ \in {"Ready", "Suspended"}
  /\ LET occ == occupy_fiber_
         mem0 == [k \in Cells |-> IF k <= d THEN <<g, v>> ELSE slot[k]]
         fib0 == [sfib EXCEPT ![g].stack_sp_ = d]
         saved == IF occ # NoFiber /\ occ # f
                  THEN SaveStackBuffer(fib0, mem0, occ) ELSE fib0
         buf == saved[f].save_buffer_
         mem == IF buf # <<>> /\ ~CurrOnSameStack(g)
                THEN RestoreBytes(mem0, sfib[f].stack_sp_, buf) ELSE mem0
     IN /\ sfib' = [saved EXCEPT ![f].state_ = "Running"]
        /\ slot' = mem
        /\ found' = [found EXCEPT ![f] =
                       IF sfib[f].state_ = "Suspended"
                       THEN LiveBytes(mem, sfib[f].stack_sp_) ELSE <<>>]
  /\ occupy_fiber_' = f
  /\ scur' = [scur EXCEPT ![t] = f]
  /\ UNCHANGED <<atSuspend, overrun>>
  /\ UNCHANGED stackForeign

\* what thread t does with the coroutines of the slot
StackStep(t) ==
  \/ \E f \in StackFibers : StackResume(t, f)
  \/ \E f \in StackFibers, d \in Cells, v \in 1..MaxVal :
        StackYield(t, f, d, v)
  \/ \E f \in StackFibers, d \in Cells : StackFinish(t, f, d)
  \/ \E f \in StackFibers : StackReset(f)

\* one thread resumes the coroutines
StackNext == StackStep(FirstThread)

\* one thread, whose coroutines also resume each other
NestedNext ==
  \/ StackStep(FirstThread)
  \/ \E g \in StackFibers, f \in StackFibers, d \in Cells, v \in 1..MaxVal :
        NestedResume(FirstThread, g, f, d, v)

\* Scheduler::schedule_loop on every worker: each pops coroutines from the
\* task queue and resumes them; nothing ties a coroutine to a thread
WorkersNext == \E t \in StackThreads : StackStep(t)


(*************************************************************************)
(* FiberPool under several threads (src/src/scheduling/fiber_pool.cc)    *)
(*                                                                       *)
(* acquire and resize run under mutex_ from beginning to end; release    *)
(* reads the coroutine's state before it takes the lock; clear stores    *)
(* the two counters before it takes the lock. The n-th acquire call      *)
(* passes the callable n.                                                *)
(*************************************************************************)
PoolFibers == 1..NumPoolFibers
PoolThreads == 1..NumPoolThreads
PoolCallables == 1..MaxAcquires
\* callback_ = nullptr
NoFunc == 0

PoolInit ==
  /\ pfib = [f \in PoolFibers |->
               [id_ |-> 0, state_ |-> "Unborn", callback_ |-> NoFunc,
                exception_ |-> FALSE, entry |-> FALSE]]
  /\ pool = [idle_fibers_ |-> <<>>, max_size_ |-> PoolMax,
             total_created_ |-> 0, total_reused_ |-> 0]
  /\ pth = [t \in PoolThreads |-> [pc |-> "idle", fiber |-> NoFiber]]
  /\ acquires = 0
  /\ runs = [c \in PoolCallables |-> 0]
  /\ pabort = FALSE

\* Fiber::Fiber(): the main coroutine of every thread has id_(0)
MainFiberId == 0

\* Fiber::Fiber(func): a new coroutine with the next id, kReady, no
\* exception, its context made to enter main_func
PoolFresh(id, func) ==
  [id_ |-> id, state_ |-> "Ready", callback_ |-> func, exception_ |-> FALSE,
   entry |-> TRUE]

\* a reset that leaves exception_ as the last run set it
PoolReset_KeepException(c, func) ==
  [c EXCEPT !.callback_ = func, !.state_ = "Ready", !.entry = TRUE]

\* Fiber::reset(func) of a terminated coroutine: callback_, kReady,
\* exception_ = nullptr, make_context(..., main_func)
PoolReset(c, func) ==
  [c EXCEPT !.callback_ = func, !.state_ = "Ready", !.exception_ = FALSE,
            !.entry = TRUE]

\* FiberPool::acquire(func), under the lock: an idle coroutine is popped
\* and reset (the assert of reset stops the process), else one is created
PoolAcquire(t) ==
  /\ ~pabort
  /\ pth[t].pc = "idle"
  /\ acquires < MaxAcquires
  /\ acquires' = acquires + 1
  /\ IF pool.idle_fibers_ # <<>>
     THEN LET f == Head(pool.idle_fibers_) IN
          IF pfib[f].state_ # "Terminated"
          THEN /\ pabort' = TRUE
               /\ pool' = [pool EXCEPT !.idle_fibers_ = Tail(@)]
               /\ UNCHANGED pfib
          ELSE /\ pfib' = [pfib EXCEPT ![f] = PoolReset(@, acquires + 1)]
               /\ pool' = [pool EXCEPT !.idle_fibers_ = Tail(@),
                                       !.total_reused_ = @ + 1]
               /\ UNCHANGED pabort
     ELSE \E f \in PoolFibers :
            /\ pfib[f].state_ = "Unborn"
            /\ \A g \in PoolFibers : g < f => pfib[g].state_ # "Unborn"
            /\ pfib' = [pfib EXCEPT ![f] = PoolFresh(f - 1, acquires + 1)]
            /\ pool' = [pool EXCEPT !.total_created_ = @ + 1]
            /\ UNCHANGED pabort
  /\ UNCHANGED <<pth, runs>>
  /\ UNCHANGED poolForeign

\* fiber->resume() by the holder of the handle: the asserts, kRunning; a
\* coroutine at its entry starts its callable
PoolResume(f) ==
  /\ ~pabort
  /\ pfib[f].state_ # "Unborn"
  /\ IF pfib[f].state_ \in {"Terminated", "Running"}
     THEN /\ pabort' = TRUE
          /\ UNCHANGED <<pfib, runs>>
     ELSE /\ pfib' = [pfib EXCEPT ![f].state_ = "Running", ![f].entry = FALSE]
          /\ runs' = IF pfib[f].entry /\ pfib[f].callback_ # NoFunc
                     THEN [runs EXCEPT ![pfib[f].callback_] = @ + 1]
                     ELSE runs
          /\ UNCHANGED pabort
  /\ UNCHANGED <<pool, pth, acquires>>
  /\ UNCHANGED poolForeign

\* the running callable yields, returns or throws (Fiber::yield,
\* Fiber::main_func)
PoolLeave(f, how) ==
  /\ ~pabort
  /\ pfib[f].state_ = "Running"
  /\ pfib' = [pfib EXCEPT ![f] =
                CASE how = "yield" -> [@ EXCEPT !.state_ = "Suspended"]
                  [] how = "return" -> [@ EXCEPT !.state_ = "Terminated",
                                                 !.callback_ = NoFunc]
                  [] how = "throw" -> [@ EXCEPT !.state_ = "Terminated",
                                                !.exception_ = TRUE]]
  /\ UNCHANGED <<pool, pth, acquires, runs, pabort>>
  /\ UNCHANGED poolForeign

\* FiberPool::release(fiber) before the lock: a null handle and a
\* coroutine that is not terminated are turned away
PoolReleaseCheck(t, f) ==
  /\ ~pabort
  /\ pth[t].pc = "idle"
  /\ IF f = NoFiber THEN TRUE ELSE pfib[f].state_ # "Unborn"
  /\ pth' = IF f # NoFiber /\ pfib[f].state_ = "Terminated"
            THEN [pth EXCEPT ![t] = [pc |-> "release", fiber |-> f]]
            ELSE pth
  /\ UNCHANGED <<pfib, pool, acquires, runs, pabort>>
  /\ UNCHANGED poolForeign

\* FiberPool::release under the lock: dropped when the pool is full
PoolReleaseLocked(t) ==
  /\ ~pabort
  /\ pth[t].pc = "release"
  /\ pool' = IF Len(pool.idle_fibers_) >= pool.max_size_
             THEN pool
             ELSE [pool EXCEPT !.idle_fibers_ = Append(@, pth[t].fiber)]
  /\ pth' = [pth EXCEPT ![t] = [pc |-> "idle", fiber |-> NoFiber]]
  /\ UNCHANGED <<pfib, acquires, runs, pabort>>
  /\ UNCHANGED poolForeign

\* a resize that stores the new maximum and leaves the idle queue as it is
PoolResize_NoTrim(t, size) ==
  /\ ~pabort
  /\ pth[t].pc = "idle"
  /\ pool' = [pool EXCEPT !.max_size_ = size]
  /\ UNCHANGED <<pfib, pth, acquires, runs, pabort>>
  /\ UNCHANGED poolForeign

\* FiberPool::resize(size), under the lock: the idle coroutines beyond the
\* new maximum are popped from the back
PoolResize(t, size) ==
  /\ ~pabort
  /\ pth[t].pc = "idle"
  /\ pool' = [pool EXCEPT
                !.max_size_ = size,
                !.idle_fibers_ = IF Len(@) > size THEN SubSeq(@, 1, size) ELSE @]
  /\ UNCHANGED <<pfib, pth, acquires, runs, pabort>>
  /\ UNCHANGED poolForeign

\* FiberPool::clear(): total_created_.store(0)
PoolClearCreated(t) ==
  /\ ~pabort
  /\ pth[t].pc = "idle"
  /\ pool' = [pool EXCEPT !.total_created_ = 0]
  /\ pth' = [pth EXCEPT ![t].pc = "clear_reused"]
  /\ UNCHANGED <<pfib, acquires, runs, pabort>>
  /\ UNCHANGED poolForeign

\* FiberPool::clear(): total_reused_.store(0)
PoolClearReused(t) ==
  /\ ~pabort
  /\ pth[t].pc = "clear_reused"
  /\ pool' = [pool EXCEPT !.total_reused_ = 0]
  /\ pth' = [pth EXCEPT ![t].pc = "clear_locked"]
  /\ UNCHANGED <<pfib, acquires, runs, pabort>>
  /\ UNCHANGED poolForeign

\* FiberPool::clear() under the lock: idle_fibers_.clear()
PoolClearLocked(t) ==
  /\ ~pabort
  /\ pth[t].pc = "clear_locked"
  /\ pool' = [pool EXCEPT !.idle_fibers_ = <<>>]
  /\ pth' = [pth EXCEPT ![t].pc = "idle"]
  /\ UNCHANGED <<pfib, acquires, runs, pabort>>
  /\ UNCHANGED poolForeign

PoolNext ==
  \/ \E t \in PoolThreads : PoolAcquire(t)
  \/ \E f \in PoolFibers : PoolResume(f)
  \/ \E f \in PoolFibers, how \in {"yield", "return", "throw"} : PoolLeave(f, how)
  \/ \E t \in PoolThreads, f \in PoolFibers \cup {NoFiber} : PoolReleaseCheck(t, f)
  \/ \E t \in PoolThreads : PoolReleaseLocked(t)
  \/ \E t \in PoolThreads, size \in 0..(PoolMax + 1) : PoolResize(t, size)
  \/ \E t \in PoolThreads : PoolClearCreated(t)
  \/ \E t \in PoolThreads : PoolClearReused(t)
  \/ \E t \in PoolThreads : PoolClearLocked(t)


(*************************************************************************)
(* The hooked calls on one descriptor number (src/src/hook/hook.cc),     *)
(* FdCtx and FdManager (src/src/io/fd_manager.cc), the descriptor's      *)
(* FdContext in the IoScheduler (src/src/io/io_scheduler.cc).            *)
(*                                                                       *)
(* One worker thread runs the coroutine that makes the hooked read or    *)
(* write and the user code that calls socket, fcntl, ioctl, close and    *)
(* add_event; the reactor thread triggers the events the poller reports. *)
(* A hooked call is one step up to its yield or its return.              *)
(*************************************************************************)
\* the worker thread of the calling coroutine
HookWorker == 1

\* no FdCtx for the fd in the FdManager
NoRec == [present |-> FALSE, is_socket_ |-> FALSE, sys_nonblock_ |-> FALSE,
          user_nonblock_ |-> FALSE, send_timeout_ |-> 0]

\* EventContext after reset_event_context
NoSlot == [fiber |-> FALSE, callback |-> FALSE]

\* the descriptor number is not in use
ClosedFd == [open |-> FALSE, sock |-> FALSE, nonblock |-> FALSE,
             viaHook |-> FALSE, ready |-> {}]

\* no hooked call in progress
HookIdle == [pc |-> "idle", op |-> "io", ev |-> "kRead", calls |-> 0,
             ret |-> "none", cancelled |-> FALSE, timer |-> FALSE]

HookInit ==
  /\ t_hook_enable = FALSE
  /\ osfd = ClosedFd
  /\ fd_datas_ = NoRec
  /\ io_fd_ = [events_ |-> {}, ctx |-> [e \in FdEvents |-> NoSlot],
               reg |-> FALSE, mask |-> {}]
  /\ hcall = HookIdle
  /\ hhist = [started |-> 0, adds |-> 0, fired |-> 0]

\* FdCtx::FdCtx(fd) -> init(): fstat, is_socket_, and for a socket O_NONBLOCK
\* is set on the descriptor and sys_nonblock_ = true
FdCtxInit(o) ==
  [rec |-> [present |-> TRUE, is_socket_ |-> o.open /\ o.sock,
            sys_nonblock_ |-> o.open /\ o.sock, user_nonblock_ |-> FALSE,
            send_timeout_ |-> 0],
   os |-> IF o.open /\ o.sock THEN [o EXCEPT !.nonblock = TRUE] ELSE o]

\* the original read/write on the descriptor, not interrupted
OsResult(o, e) ==
  IF ~o.open THEN "EBADF"
  ELSE IF e \in o.ready THEN "ok"
  ELSE IF o.nonblock THEN "EAGAIN"
  ELSE "blocks"

\* the descriptor after the original call returned r: the data is consumed
OsAfter(o, e, r) == IF r = "ok" THEN [o EXCEPT !.ready = @ \ {e}] ELSE o

\* EpollPoller::add_event / mod_event / del_event on the fd's registration
EpollOf(c, open, op, mask) ==
  IF ~open \/ (op = "ADD") = c.reg
  THEN [ret |-> -1, c |-> c]
  ELSE [ret |-> 0,
        c |-> IF op = "DEL" THEN [c EXCEPT !.reg = FALSE, !.mask = {}]
                            ELSE [c EXCEPT !.reg = TRUE, !.mask = mask]]

\* FdContext::del_event(event): the bit is cleared and the slot reset; the
\* waiter of the slot is not invoked and not scheduled
SlotDel(c, e) ==
  IF e \in c.events_
  THEN [c EXCEPT !.events_ = @ \ {e}, !.ctx[e] = NoSlot]
  ELSE c

\* IoScheduler::del_event(fd, event)
DelEventOf(c, open, e) ==
  LET c1 == SlotDel(c, e)
  IN EpollOf(c1, open, IF c1.events_ = {} THEN "DEL" ELSE "MOD", c1.events_).c

\* IoScheduler::add_event(fd, event, callback): the slot takes the callback
\* or the current coroutine, the bit is set, the poller is told; a poller
\* error undoes the bit and the slot
AddEventOf(c, open, e, kind) ==
  LET c1 == [c EXCEPT !.ctx[e] = IF kind = "callback"
                                  THEN [@ EXCEPT !.callback = TRUE]
                                  ELSE [@ EXCEPT !.fiber = TRUE],
                      !.events_ = @ \cup {e}]
      r == EpollOf(c1, open, IF c1.events_ = {e} THEN "ADD" ELSE "MOD",
                   c1.events_)
  IN IF r.ret < 0 THEN [ret |-> -1, c |-> SlotDel(c1, e)]
                  ELSE [ret |-> 0, c |-> r.c]

\* trigger_event / cancel_event on a slot: the callback is invoked, else the
\* coroutine is handed to the scheduler of the calling thread, if it has one
Rescheduled(sl, thread) ==
  ~sl.callback /\ sl.fiber /\ SchedulerOfThread(thread) # "nullptr"

FiredBy(sl, thread) ==
  IF sl.callback \/ Rescheduled(sl, thread) THEN 1 ELSE 0

\* the step fires no waiter
NoneFired == [hhist EXCEPT !.fired = 0]

\* the coroutine parked on event e is put on the task queue
WakeIf(woken) ==
  IF woken /\ hcall.pc = "parked" THEN "ready" ELSE hcall.pc

\* set_hook_enable(enable)
SetHookEnable(b) ==
  /\ t_hook_enable # b
  /\ t_hook_enable' = b
  /\ hhist' = NoneFired
  /\ UNCHANGED <<osfd, fd_datas_, io_fd_, hcall>>
  /\ UNCHANGED hookForeign

\* socket(): the original; with the hook enabled the fd gets its FdCtx
\* (get(fd, true)), O_NONBLOCK is set and sys_nonblock_ = true
HookSocket ==
  /\ ~osfd.open
  /\ LET o == [open |-> TRUE, sock |-> TRUE, nonblock |-> FALSE,
               viaHook |-> t_hook_enable, ready |-> {}]
         made == IF fd_datas_.present THEN [rec |-> fd_datas_, os |-> o]
                                      ELSE FdCtxInit(o)
     IN IF ~t_hook_enable
        THEN /\ osfd' = o
             /\ UNCHANGED fd_datas_
        ELSE /\ osfd' = [made.os EXCEPT !.nonblock = TRUE]
             /\ fd_datas_' = [made.rec EXCEPT !.sys_nonblock_ = TRUE]
  /\ hhist' = NoneFired
  /\ UNCHANGED <<t_hook_enable, io_fd_, hcall>>
  /\ UNCHANGED hookForeign

\* a descriptor that is not a socket gets the number (open, pipe: not hooked)
OpenOther ==
  /\ ~osfd.open
  /\ osfd' = [ClosedFd EXCEPT !.open = TRUE]
  /\ hhist' = NoneFired
  /\ UNCHANGED <<t_hook_enable, fd_datas_, io_fd_, hcall>>
  /\ UNCHANGED hookForeign

\* FdManager::get(fd, true) called by user code: the FdCtx is created
FdManagerGet ==
  /\ ~fd_datas_.present
  /\ fd_datas_' = FdCtxInit(osfd).rec
  /\ osfd' = FdCtxInit(osfd).os
  /\ hhist' = NoneFired
  /\ UNCHANGED <<t_hook_enable, io_fd_, hcall>>
  /\ UNCHANGED hookForeign

\* the OS call F_SETFL / FIONBIO with the argument nb
OsSetNonblock(o, nb) == IF o.open THEN [o EXCEPT !.nonblock = nb] ELSE o

\* fcntl(fd, F_SETFL, arg) with O_NONBLOCK set (nb) or clear in arg
HookFcntlSetfl(nb) ==
  /\ IF ~fd_datas_.present \/ ~fd_datas_.is_socket_
     THEN /\ osfd' = OsSetNonblock(osfd, nb)
          /\ UNCHANGED fd_datas_
     ELSE /\ fd_datas_' = [fd_datas_ EXCEPT !.user_nonblock_ = nb]
          /\ osfd' = OsSetNonblock(osfd, fd_datas_.sys_nonblock_)
  /\ hhist' = NoneFired
  /\ UNCHANGED <<t_hook_enable, io_fd_, hcall>>
  /\ UNCHANGED hookForeign

\* ioctl(fd, FIONBIO, &nb): user_nonblock_ is recorded and the original is
\* called with the user's argument
HookIoctlFionbio(nb) ==
  /\ fd_datas_' = IF ~fd_datas_.present \/ ~fd_datas_.is_socket_
                  THEN fd_datas_
                  ELSE [fd_datas_ EXCEPT !.user_nonblock_ = nb]
  /\ osfd' = OsSetNonblock(osfd, nb)
  /\ hhist' = NoneFired
  /\ UNCHANGED <<t_hook_enable, io_fd_, hcall>>
  /\ UNCHANGED hookForeign

\* close(fd): with the hook enabled and an FdCtx, del_event for Read and
\* Write and FdManager::del; then the original, after which the kernel has
\* dropped the descriptor from the poller
HookClose ==
  /\ osfd.open
  /\ LET hooked == t_hook_enable /\ fd_datas_.present
         c2 == IF hooked
               THEN DelEventOf(DelEventOf(io_fd_, TRUE, "kRead"), TRUE, "kWrite")
               ELSE io_fd_
     IN /\ io_fd_' = [c2 EXCEPT !.reg = FALSE, !.mask = {}]
        /\ fd_datas_' = IF hooked THEN NoRec ELSE fd_datas_
  /\ osfd' = ClosedFd
  /\ hhist' = NoneFired
  /\ UNCHANGED <<t_hook_enable, hcall>>
  /\ UNCHANGED hookForeign

\* a hook that does not look at what the user asked for
PassThrough_IgnoreUser(enable, rec) ==
  ~enable \/ ~rec.present \/ ~rec.is_socket_

\* do_io_hook passes the call through: hook disabled, no FdCtx, not a socket
\* or the user asked for nonblocking (is_closed_ is never written)
PassThrough(enable, rec) ==
  ~enable \/ ~rec.present \/ ~rec.is_socket_ \/ rec.user_nonblock_

\* the loop of do_io_hook from the call of the original on: EINTR retries,
\* then on EAGAIN the timeout timer, add_event and yield, else the return
HookAttempt(e, intr, callsBefore) ==
  LET r == OsResult(osfd, e)
      a == AddEventOf(io_fd_, osfd.open, e, "fiber")
  IN IF r = "EAGAIN"
     THEN /\ io_fd_' = a.c
          /\ hcall' = IF a.ret # 0
                      THEN [HookIdle EXCEPT !.ev = e, !.ret = "-1",
                                            !.calls = callsBefore + intr + 1]
                      ELSE [pc |-> "parked", op |-> "io", ev |-> e,
                            calls |-> callsBefore + intr + 1, ret |-> "none",
                            cancelled |-> FALSE, timer |-> TRUE]
          /\ UNCHANGED osfd
     ELSE /\ hcall' = [HookIdle EXCEPT !.ev = e, !.ret = r,
                                       !.calls = callsBefore + intr + 1]
          /\ osfd' = OsAfter(osfd, e, r)
          /\ UNCHANGED io_fd_

\* a hooked read / write / send / recv is called by the coroutine
HookIoStart(e, intr) ==
  /\ hcall.pc = "idle"
  /\ hhist.started < MaxHookCalls
  /\ hhist' = [hhist EXCEPT !.started = @ + 1, !.fired = 0]
  /\ IF PassThrough(t_hook_enable, fd_datas_)
     THEN LET r == IF intr > 0 THEN "EINTR" ELSE OsResult(osfd, e)
          IN /\ hcall' = [HookIdle EXCEPT !.ev = e, !.ret = r, !.calls = 1]
             /\ osfd' = OsAfter(osfd, e, r)
             /\ UNCHANGED io_fd_
     ELSE HookAttempt(e, intr, 0)
  /\ UNCHANGED <<t_hook_enable, fd_datas_>>
  /\ UNCHANGED hookForeign

\* the worker resumes the coroutine after its yield: timer->cancel(), the
\* cancelled flag, else the loop again
HookIoResume(intr) ==
  /\ hcall.pc = "ready" /\ hcall.op = "io"
  /\ IF hcall.cancelled
     THEN /\ hcall' = [HookIdle EXCEPT !.ev = hcall.ev, !.ret = "ETIMEDOUT",
                                       !.calls = hcall.calls]
          /\ intr = 0
          /\ UNCHANGED <<osfd, io_fd_>>
     ELSE HookAttempt(hcall.ev, intr, hcall.calls)
  /\ hhist' = NoneFired
  /\ UNCHANGED <<t_hook_enable, fd_datas_>>
  /\ UNCHANGED hookForeign

\* the timeout timer of the call expires and a worker runs its closure:
\* cancelled = ETIMEDOUT and cancel_event(fd, event)
HookTimer ==
  /\ hcall.timer
  /\ IF hcall.cancelled
     THEN /\ hcall' = [hcall EXCEPT !.timer = FALSE]
          /\ hhist' = NoneFired
          /\ UNCHANGED io_fd_
     ELSE LET e == hcall.ev
              sl == io_fd_.ctx[e]
              has == e \in io_fd_.events_
              c1 == SlotDel(io_fd_, e)
          IN /\ hcall' = [hcall EXCEPT
                            !.timer = FALSE, !.cancelled = TRUE,
                            !.pc = WakeIf(has /\ Rescheduled(sl, HookWorker))]
             /\ io_fd_' = EpollOf(c1, osfd.open,
                                  IF c1.events_ = {} THEN "DEL" ELSE "MOD",
                                  c1.events_).c
             /\ hhist' = [hhist EXCEPT !.fired =
                            IF has THEN FiredBy(sl, HookWorker) ELSE 0]
  /\ UNCHANGED <<t_hook_enable, osfd, fd_datas_>>
  /\ UNCHANGED hookForeign

\* the poller reports the event and io_thread_func calls trigger_event
ReactorTrigger(e) ==
  /\ osfd.open /\ e \in osfd.ready
  /\ io_fd_.reg /\ e \in io_fd_.mask
  /\ e \in io_fd_.events_
  /\ io_fd_' = SlotDel(io_fd_, e)
  /\ hcall' = [hcall EXCEPT
                 !.pc = WakeIf(e = hcall.ev
                               /\ Rescheduled(io_fd_.ctx[e], IoThread))]
  /\ hhist' = [hhist EXCEPT !.fired = FiredBy(io_fd_.ctx[e], IoThread)]
  /\ UNCHANGED <<t_hook_enable, osfd, fd_datas_>>
  /\ UNCHANGED hookForeign

\* IoScheduler::add_event(fd, event, callback) called by user code
UserAddEvent(e) ==
  /\ hhist.adds < MaxHookAdds
  /\ hhist' = [hhist EXCEPT !.adds = @ + 1, !.fired = 0]
  /\ io_fd_' = AddEventOf(io_fd_, osfd.open, e, "callback").c
  /\ UNCHANGED <<t_hook_enable, osfd, fd_datas_, hcall>>
  /\ UNCHANGED hookForeign

\* the peer writes, or the send buffer drains
BecomesReady(e) ==
  /\ osfd.open /\ e \notin osfd.ready
  /\ osfd' = [osfd EXCEPT !.ready = @ \cup {e}]
  /\ hhist' = NoneFired
  /\ UNCHANGED <<t_hook_enable, fd_datas_, io_fd_, hcall>>
  /\ UNCHANGED hookForeign

HookNext ==
  \/ \E b \in BOOLEAN : SetHookEnable(b)
  \/ HookSocket
  \/ OpenOther
  \/ FdManagerGet
  \/ \E nb \in BOOLEAN : HookFcntlSetfl(nb)
  \/ \E nb \in BOOLEAN : HookIoctlFionbio(nb)
  \/ HookClose
  \/ \E e \in FdEvents, intr \in 0..MaxIntr : HookIoStart(e, intr)
  \/ \E intr \in 0..MaxIntr : HookIoResume(intr)
  \/ HookTimer
  \/ \E e \in FdEvents : ReactorTrigger(e)
  \/ \E e \in FdEvents : UserAddEvent(e)
  \/ \E e \in FdEvents : BecomesReady(e)


(*************************************************************************)
(* The hooked connect and setsockopt on the same descriptor              *)
(* (src/src/hook/hook.cc).                                               *)
(*************************************************************************)
\* static uint64_t s_connect_timeout = -1
s_connect_timeout == NoTimeout

\* the original connect on the descriptor with outcome how of the peer
ConnectResult(o, how) ==
  IF ~o.open THEN "EBADF"
  ELSE IF how = "ok" THEN "ok"
  ELSE IF o.nonblock THEN "EINPROGRESS"
  ELSE "blocks"

\* setsockopt(fd, SOL_SOCKET, SO_SNDTIMEO, ms): with the hook enabled the
\* FdCtx of the fd, if there is one, stores the timeout; then the original
HookSetsockopt(ms) ==
  /\ t_hook_enable /\ fd_datas_.present
  /\ fd_datas_.send_timeout_ # ms
  /\ fd_datas_' = [fd_datas_ EXCEPT !.send_timeout_ = ms]
  /\ hhist' = NoneFired
  /\ UNCHANGED <<t_hook_enable, osfd, io_fd_, hcall>>
  /\ UNCHANGED hookForeign

\* connect() -> connect_with_timeout(fd, addr, addrlen, s_connect_timeout)
\* up to its yield or its return
HookConnect(how) ==
  /\ hcall.pc = "idle"
  /\ hhist.started < MaxHookCalls
  /\ hhist' = [hhist EXCEPT !.started = @ + 1, !.fired = 0]
  /\ LET done(r) == [HookIdle EXCEPT !.op = "connect", !.ev = "kWrite",
                                     !.ret = r, !.calls = 1]
         r == ConnectResult(osfd, how)
         a == AddEventOf(io_fd_, osfd.open, "kWrite", "fiber")
     IN IF ~t_hook_enable
        THEN hcall' = done(r) /\ UNCHANGED io_fd_
        ELSE IF ~fd_datas_.present
        THEN hcall' = [done("EBADF") EXCEPT !.calls = 0] /\ UNCHANGED io_fd_
        ELSE IF ~fd_datas_.is_socket_ \/ fd_datas_.user_nonblock_
                 \/ r # "EINPROGRESS"
        THEN hcall' = done(r) /\ UNCHANGED io_fd_
        ELSE /\ io_fd_' = a.c
             /\ hcall' = IF a.ret # 0
                         THEN done("-1")
                         ELSE [pc |-> "parked", op |-> "connect",
                               ev |-> "kWrite", calls |-> 1, ret |-> "none",
                               cancelled |-> FALSE,
                               timer |-> (s_connect_timeout # NoTimeout)]
  /\ UNCHANGED <<t_hook_enable, osfd, fd_datas_>>
  /\ UNCHANGED hookForeign

\* the worker resumes the coroutine after the yield of connect:
\* timer->cancel(), the cancelled flag, else SO_ERROR (err) decides
HookConnectResume(err) ==
  /\ hcall.pc = "ready" /\ hcall.op = "connect"
  /\ hcall' = [HookIdle EXCEPT
                 !.op = "connect", !.ev = "kWrite", !.calls = 1,
                 !.ret = IF hcall.cancelled THEN "ETIMEDOUT" ELSE err]
  /\ hcall.cancelled => err = "ok"
  /\ hhist' = NoneFired
  /\ UNCHANGED <<t_hook_enable, osfd, fd_datas_, io_fd_>>
  /\ UNCHANGED hookForeign

\* IoScheduler::cancel_event(fd, event) called by a coroutine of the worker:
\* the waiter of the slot is fired on the worker thread
UserCancelEvent(e) ==
  /\ e \in io_fd_.events_
  /\ LET sl == io_fd_.ctx[e]
         c1 == SlotDel(io_fd_, e)
     IN /\ hcall' = [hcall EXCEPT
                       !.pc = WakeIf(e = hcall.ev
                                     /\ Rescheduled(sl, HookWorker))]
        /\ io_fd_' = EpollOf(c1, osfd.open,
                             IF c1.events_ = {} THEN "DEL" ELSE "MOD",
                             c1.events_).c
        /\ hhist' = [hhist EXCEPT !.fired = FiredBy(sl, HookWorker)]
  /\ UNCHANGED <<t_hook_enable, osfd, fd_datas_>>
  /\ UNCHANGED hookForeign

ConnNext ==
  \/ \E b \in BOOLEAN : SetHookEnable(b)
  \/ HookSocket
  \/ FdManagerGet
  \/ \E nb \in BOOLEAN : HookFcntlSetfl(nb)
  \/ \E ms \in 0..MaxTimeout : HookSetsockopt(ms)
  \/ HookClose
  \/ \E how \in {"ok", "pending"} : HookConnect(how)
  \/ \E err \in {"ok", "ECONNREFUSED"} : HookConnectResume(err)
  \/ \E e \in FdEvents : ReactorTrigger(e)
  \/ \E e \in FdEvents : UserAddEvent(e)
  \/ \E e \in FdEvents : UserCancelEvent(e)
  \/ \E e \in FdEvents : BecomesReady(e)


(*************************************************************************)
(* IoScheduler::get_fd_context (src/src/io/io_scheduler.cc) called by    *)
(* several threads. fd_contexts_ is the vector as a sequence indexed     *)
(* from fd 0; a context is the number of its creation. A step is one     *)
(* access to the vector; resize() is two, its start and its end.         *)
(*************************************************************************)
\* nullptr
NoCtx == 0
\* what a read of the vector yields while resize() moves its elements
Garbage == -1

GetIdle == [pc |-> "idle", fd |-> 0, ret |-> NoCtx, done |-> FALSE]

TabInit ==
  /\ fd_contexts_ = <<>>
  /\ gth = [t \in Workers |-> GetIdle]
  /\ tabhist = [gets |-> 0, made |-> 0, raced |-> FALSE]

\* thread t touches the vector while another thread is inside resize()
Racing(t) == \E u \in Workers \ {t} : gth[u].pc = "resizing"

\* fd_contexts_[fd] for an index below size()
CtxAt(fd) == fd_contexts_[fd + 1]

\* want = max(fd + 1, old + old / 2)
WantSize(fd, old) ==
  IF fd + 1 >= old + (old \div 2) THEN fd + 1 ELSE old + (old \div 2)

\* get_fd_context(fd, auto_create): the first look at the vector, which no
\* lock protects; a look during a resize may also see freed memory
GetLookup(t, fd, auto_create) ==
  /\ gth[t].pc = "idle"
  /\ tabhist.gets < MaxGets
  /\ tabhist' = [tabhist EXCEPT !.gets = @ + 1,
                                !.raced = @ \/ Racing(t)]
  /\ \/ /\ fd < Len(fd_contexts_)
        /\ CtxAt(fd) # NoCtx \/ ~auto_create
        /\ gth' = [gth EXCEPT ![t] = [pc |-> "idle", fd |-> fd,
                                       ret |-> CtxAt(fd), done |-> TRUE]]
     \/ /\ fd >= Len(fd_contexts_) /\ ~auto_create
        /\ gth' = [gth EXCEPT ![t] = [pc |-> "idle", fd |-> fd,
                                       ret |-> NoCtx, done |-> TRUE]]
     \/ /\ auto_create
        /\ fd < Len(fd_contexts_) => CtxAt(fd) = NoCtx
        /\ gth' = [gth EXCEPT ![t] = [pc |-> "grow", fd |-> fd,
                                       ret |-> NoCtx, done |-> FALSE]]
     \/ /\ Racing(t)
        /\ gth' = [gth EXCEPT ![t] = [pc |-> "idle", fd |-> fd,
                                       ret |-> Garbage, done |-> TRUE]]
  /\ UNCHANGED fd_contexts_
  /\ UNCHANGED tabForeign

\* if (fd >= fd_contexts_.size()): resize(want) starts
GetGrow(t) ==
  /\ gth[t].pc = "grow"
  /\ gth' = [gth EXCEPT ![t].pc = IF gth[t].fd >= Len(fd_contexts_)
                                  THEN "resizing" ELSE "create"]
  /\ tabhist' = [tabhist EXCEPT !.raced = @ \/ Racing(t)]
  /\ UNCHANGED fd_contexts_
  /\ UNCHANGED tabForeign

\* resize(want) is done: the new elements are null
GetResized(t) ==
  /\ gth[t].pc = "resizing"
  /\ LET want == WantSize(gth[t].fd, Len(fd_contexts_))
     IN fd_contexts_' = [i \in 1..(IF want > Len(fd_contexts_) THEN want
                                   ELSE Len(fd_contexts_)) |->
                          IF i <= Len(fd_contexts_) THEN fd_contexts_[i]
                                                    ELSE NoCtx]
  /\ gth' = [gth EXCEPT ![t].pc = "create"]
  /\ tabhist' = [tabhist EXCEPT !.raced = @ \/ Racing(t)]
  /\ UNCHANGED tabForeign

\* if (!fd_contexts_[fd] && auto_create): the test
GetCreate(t) ==
  /\ gth[t].pc = "create"
  /\ gth' = [gth EXCEPT ![t] =
               IF CtxAt(gth[t].fd) = NoCtx
               THEN [@ EXCEPT !.pc = "store"]
               ELSE [@ EXCEPT !.pc = "idle", !.ret = CtxAt(gth[t].fd),
                              !.done = TRUE]]
  /\ tabhist' = [tabhist EXCEPT !.raced = @ \/ Racing(t)]
  /\ UNCHANGED fd_contexts_
  /\ UNCHANGED tabForeign

\* fd_contexts_[fd] = std::make_shared<FdContext>(fd); return fd_contexts_[fd]
GetStore(t) ==
  /\ gth[t].pc = "store"
  /\ fd_contexts_' = [fd_contexts_ EXCEPT ![gth[t].fd + 1] = tabhist.made + 1]
  /\ gth' = [gth EXCEPT ![t] = [@ EXCEPT !.pc = "idle",
                                         !.ret = tabhist.made + 1,
                                         !.done = TRUE]]
  /\ tabhist' = [tabhist EXCEPT !.made = @ + 1, !.raced = @ \/ Racing(t)]
  /\ UNCHANGED tabForeign

TabNext ==
  \/ \E t \in Workers, fd \in 0..MaxFd, auto_create \in BOOLEAN :
        GetLookup(t, fd, auto_create)
  \/ \E t \in Workers : GetGrow(t)
  \/ \E t \in Workers : GetResized(t)
  \/ \E t \in Workers : GetCreate(t)
  \/ \E t \in Workers : GetStore(t)


(*************************************************************************)
(* Scheduler::run and schedule_loop on a single worker thread            *)
(* (src/src/scheduling/scheduler.cc) with Fiber::resume, Fiber::yield    *)
(* and confirm_switch_target (src/src/runtime/fiber.cc).                 *)
(*                                                                       *)
(* The worker's main fiber has resumed the scheduler fiber, which runs   *)
(* the loop. A coroutine is scheduled once by user code; before each of  *)
(* its yields it either schedules itself or arms a wake-up (an event, a  *)
(* timer) that another thread delivers by scheduling it.                 *)
(*************************************************************************)
LoopFibers == 1..NumFibers
\* the scheduler fiber of the worker (ThreadContext::scheduler_fiber_)
SchedulerFiber == -2

LoopInit ==
  /\ rq = <<>>
  /\ lfib = [f \in LoopFibers |->
               [state_ |-> "Unborn", prog |-> 0, left |-> 0, wake |-> "none"]]
  /\ lcur = SchedulerFiber
  /\ labort = FALSE

\* a target that ignores the scheduler fiber
ConfirmSwitchTarget_Main(f) == MainFiber

\* Fiber::confirm_switch_target: the scheduler fiber, unless this is the
\* scheduler fiber itself; then the main fiber
ConfirmSwitchTarget(f) ==
  IF f # SchedulerFiber THEN SchedulerFiber ELSE MainFiber

\* user code on another thread creates a coroutine whose callable yields n
\* times and calls Scheduler::schedule(fiber)
LoopSchedule(f, n) ==
  /\ lfib[f].state_ = "Unborn"
  /\ lfib' = [lfib EXCEPT ![f] = [state_ |-> "Ready", prog |-> n, left |-> n,
                                   wake |-> "none"]]
  /\ rq' = Append(rq, f)
  /\ UNCHANGED <<lcur, labort>>
  /\ UNCHANGED loopForeign

\* schedule_loop: pop(task), fiber->resume(): the asserts, kRunning,
\* co_swap(scheduler fiber, fiber)
LoopResume ==
  /\ ~labort
  /\ lcur = SchedulerFiber
  /\ rq # <<>>
  /\ rq' = Tail(rq)
  /\ LET f == Head(rq)
     IN IF lfib[f].state_ \in {"Terminated", "Running"}
        THEN labort' = TRUE /\ UNCHANGED <<lfib, lcur>>
        ELSE /\ lfib' = [lfib EXCEPT ![f].state_ = "Running"]
             /\ lcur' = f
             /\ UNCHANGED labort
  /\ UNCHANGED loopForeign

\* the running coroutine registers for a wake-up by another thread
LoopArm(f) ==
  /\ ~labort
  /\ lcur = f /\ lfib[f].state_ = "Running"
  /\ lfib[f].left > 0 /\ lfib[f].wake = "none"
  /\ lfib' = [lfib EXCEPT ![f].wake = "armed"]
  /\ UNCHANGED <<rq, lcur, labort>>
  /\ UNCHANGED loopForeign

\* the other thread delivers the wake-up: Scheduler::schedule(fiber)
LoopWake(f) ==
  /\ lfib[f].wake = "armed"
  /\ rq' = Append(rq, f)
  /\ lfib' = [lfib EXCEPT ![f].wake = IF lfib[f].state_ = "Running"
                                       THEN "woken" ELSE "none"]
  /\ UNCHANGED <<lcur, labort>>
  /\ UNCHANGED loopForeign

\* the running coroutine, having armed a wake-up or scheduling itself now,
\* calls Fiber::yield(): kSuspended, confirm_switch_target()
LoopYield(f) ==
  /\ ~labort
  /\ lcur = f /\ lfib[f].state_ = "Running"
  /\ lfib[f].left > 0
  /\ rq' = IF lfib[f].wake = "none" THEN Append(rq, f) ELSE rq
  /\ lfib' = [lfib EXCEPT ![f].state_ = "Suspended", ![f].left = @ - 1,
                          ![f].wake = IF @ = "woken" THEN "none" ELSE @]
  /\ lcur' = ConfirmSwitchTarget(f)
  /\ UNCHANGED labort
  /\ UNCHANGED loopForeign

\* the callable returns: main_func sets kTerminated and calls
\* confirm_switch_target(); the loop releases the coroutine
LoopEnd(f) ==
  /\ ~labort
  /\ lcur = f /\ lfib[f].state_ = "Running"
  /\ lfib[f].left = 0
  /\ lfib' = [lfib EXCEPT ![f].state_ = "Terminated"]
  /\ lcur' = ConfirmSwitchTarget(f)
  /\ UNCHANGED <<rq, labort>>
  /\ UNCHANGED loopForeign

\* what the running coroutine f does next
LoopFiberStep(f) == LoopArm(f) \/ LoopYield(f) \/ LoopEnd(f)

LoopNext ==
  \/ \E f \in LoopFibers, n \in 0..MaxYields : LoopSchedule(f, n)
  \/ LoopResume
  \/ \E f \in LoopFibers : LoopFiberStep(f)
  \/ \E f \in LoopFibers : LoopWake(f)

\* the worker thread runs, a running coroutine goes on, a wake-up arrives
LoopFairness ==
  /\ WF_vars(LoopResume)
  /\ \A f \in LoopFibers : WF_vars(LoopFiberStep(f))
  /\ \A f \in LoopFibers : WF_vars(LoopWake(f))


(*************************************************************************)
(* Specifications                                                        *)
(*************************************************************************)
\* every specification starts from the state after construction
AllInit ==
  /\ FiberInit /\ SchedInit /\ IoInit /\ FdInit /\ TmInit /\ StackInit
  /\ PoolInit /\ HookInit /\ TabInit /\ LoopInit

\* the coroutine life cycle alone
InitOfSpecFiber == AllInit
SpecFiber == InitOfSpecFiber /\ [][FiberNext]_vars

\* the scheduler alone
InitOfSpecSched == AllInit
SpecSched == InitOfSpecSched /\ [][SchedNext]_vars

\* the I/O scheduler with its workers and its reactor thread
InitOfSpecIo == AllInit
SpecIo == InitOfSpecIo /\ [][IoNext]_vars

\* one fd context, its callers and the reactor
InitOfSpecFd == AllInit
SpecFd == InitOfSpecFd /\ [][FdNext]_vars

\* the timers, the reactor loop and a worker
InitOfSpecTimer == AllInit
SpecTimer == InitOfSpecTimer /\ [][TmNext]_vars

\* the coroutines of one shared-stack slot
InitOfSpecStack == AllInit
SpecStack == InitOfSpecStack /\ [][StackNext]_vars

\* the shared stack with resume() called from a coroutine of the same slot
InitOfSpecNested == AllInit
SpecNested == InitOfSpecNested /\ [][NestedNext]_vars

\* the coroutines of one shared-stack slot dispatched to several workers
InitOfSpecWorkers == AllInit
SpecWorkers == InitOfSpecWorkers /\ [][WorkersNext]_vars

\* the coroutine pool and its callers
InitOfSpecPool == AllInit
SpecPool == InitOfSpecPool /\ [][PoolNext]_vars

\* one descriptor under the hooked calls
InitOfSpecHook == AllInit
SpecHook == InitOfSpecHook /\ [][HookNext]_vars

\* IoScheduler's fd table under concurrent lookups
InitOfSpecFdTable == AllInit
SpecFdTable == InitOfSpecFdTable /\ [][TabNext]_vars

\* one worker thread running coroutines that yield
InitOfSpecLoop == AllInit
SpecLoop == InitOfSpecLoop /\ [][LoopNext]_vars
FairSpecLoop == SpecLoop /\ LoopFairness

\* the hooked connect with setsockopt on one socket
InitOfSpecConnect == AllInit
SpecConnect == InitOfSpecConnect /\ [][ConnNext]_vars

\* the same with the fairness of threads: a thread that can take its next
\* step takes it; nobody has to call the API, and no wake-up comes unasked
SchedFairness ==
  /\ \A w \in Workers : WF_vars(WorkerStep(w))
  /\ WF_vars(StopStep)
  /\ \A c \in Clients : WF_vars(PushSize(c) \/ PushNotify(c))

FairSpecSched == SpecSched /\ SchedFairness


(*************************************************************************)
(* Claims                                                                *)
(*************************************************************************)
ChangesWithin(allowed) ==
  \A f \in AllFibers :
     (state_[f] # "Unborn" /\ state_'[f] # state_[f])
        => <<state_[f], state_'[f]>> \in allowed

OriginalTransitions ==
  { <<"Ready", "Running">>, <<"Running", "Suspended">>,
    <<"Suspended", "Running">>, <<"Running", "Terminated">> }

AmendedTransitions == OriginalTransitions \cup { <<"Terminated", "Ready">> }

InQueueOrNotParked(f) == InQueue(f) \/ state_[f] # "Suspended"

\* C2: no coroutine is in the hands of two workers at once: a worker is in
\* resume() of a coroutine only when no other worker is executing it.
C2_OneWorkerPerFiber ==
  \A f \in UserFibers :
     Cardinality({w \in Workers : wrun[w] = FiberTask(f)}) <= 1

\* C3: a coroutine that the reactor's trigger_event took out of the wait slot
\* of a ready fd is on the task queue, or is no longer parked.
C3_ReadinessReschedules ==
  \A f \in triggered : InQueueOrNotParked(f)

\* C4: a coroutine in a hooked sleep whose timer callback has been invoked is
\* on the task queue, or is no longer parked.
C4_SleepTimerReschedules ==
  \A f \in timerRan : hook[f].op = "sleep" => InQueueOrNotParked(f)

\* C5: a coroutine of a hooked read on a socket with SO_RCVTIMEO set, whose
\* timeout callback has run to its end before any readiness was seen, and
\* which is parked, is on the task queue (to be resumed and to return -1 with
\* ETIMEDOUT).
C5_TimeoutReschedules ==
  \A f \in (timerRan \cap configured) \ triggered :
     (/\ hook[f].op = "read"
      /\ tinfo[f] = "ETIMEDOUT"
      /\ \A w \in Workers : wrun[w] # CancelTask(f)
      /\ state_[f] = "Suspended")
        => InQueue(f)

\* C6: a hooked read on a socket on which SO_RCVTIMEO was never set arms no
\* timer and does not fail with ETIMEDOUT.
C6_NoTimerByDefault ==
  \A f \in UserFibers \ configured :
     hook[f].op = "read" => ~hook[f].timer /\ hook[f].ret # "ETIMEDOUT"

\* C7: when a stop() of a started scheduler has returned, every task whose
\* push took effect before that stop() was called has been executed.
C7_StopDrainsQueue ==
  (atStop.called /\ atStop.started /\ cpc["main"] = "idle")
     => atStop.pushed \subseteq executed

\* C8: a stop() that has set stopping_ returns: every worker is woken, leaves
\* its loop and is joined.
C8_StopReturns == (cpc["main"] = "stop_store") ~> (cpc["main"] = "idle")

\* C9: after start(); stop(); start(); stop() every worker thread that was
\* ever spawned has been joined.
C9_RestartJoinsAll ==
  calls = <<"start", "stop", "start", "stop">> => joined = spawned

\* C10: the tasks removed so far are, in order, the first tasks whose push took
\* effect: no task is removed before one pushed earlier.
C10_Fifo ==
  /\ Len(popOrder) <= Len(pushOrder)
  /\ popOrder = SubSeq(pushOrder, 1, Len(popOrder))

\* C10 witness: two tasks have been removed while a third is still queued
C10_TwoPoppedOneQueued == Len(popOrder) >= 2 /\ tasks_ # <<>>

FdQuiet == \A t \in FdThreads : fth[t].pc = "idle"

\* C11: after any sequence of add_event, del_event, cancel_event and reactor
\* dispatches, made one after the other, the event mask the poller holds for
\* the fd equals FdContext::events_.
C11_PollerMaskMatches ==
  (FdQuiet /\ ~overlapped)
     => (IF poller_.reg THEN poller_.mask ELSE {}) = fd_events_

\* C12: when an add_event has returned 0, with no other call on the fd in
\* progress at any time, the wait slot of its event holds a callback or a
\* coroutine, and not both.
C12_ExactlyOneWaiter ==
  (lastAdd.done /\ lastAdd.ret = 0 /\ ~overlapped)
     => (lastAdd.ctx.callback # NoWaiter) # (lastAdd.ctx.fiber # NoWaiter)

\* C13: no waiter handed to add_event is invoked or enqueued more than once.
C13_FiredAtMostOnce == \A w \in Waiters : fired[w] <= 1

\* the timers in timers_
InTimers == {tm_timers_[i] : i \in DOMAIN tm_timers_}

\* a step of the reactor that is a whole call of list_expired_callbacks
ListExpiredReturns == tpc.pc = "collect" /\ tpc'.pc = "schedule"

\* C14: list_expired_callbacks returns the closures of exactly the timers of
\* the set that are not cancelled and have next_time_ <= now.
C14_ReturnsExactlyExpired ==
  [][ListExpiredReturns =>
       {returned'[i] : i \in DOMAIN returned'} =
          {t \in InTimers : ~tm[t].cancelled_ /\ tm[t].next_time_ <= now}]_vars

\* C15: when list_expired_callbacks returns, every returned one-shot timer is
\* out of the set, and every returned recurring timer is in the set with its
\* next_time_ one interval_ later than before the call.
C15_PostState ==
  [][ListExpiredReturns =>
       \A i \in DOMAIN returned' :
          IF tm[returned'[i]].recurring_
          THEN /\ returned'[i] \in InTimers'
               /\ tm'[returned'[i]].next_time_ =
                     tm[returned'[i]].next_time_ + tm[returned'[i]].interval_
          ELSE returned'[i] \notin InTimers']_vars

\* C16: the callback of a recurring timer with interval I, on which neither
\* refresh() nor reset() was called, has started at most floor(T / I) times
\* when T milliseconds have passed since add_timer.
C16_OncePerInterval ==
  \A t \in TimerIds :
     (tm[t].made /\ tm[t].recurring_ /\ ~tm[t].touched)
        => ran[t] * tm[t].interval_ <= now - tm[t].created

\* C17: once Timer::cancel() has returned, the timer's callback does not
\* start again.
C17_NoStartAfterCancel ==
  [][\A t \in TimerIds : tm[t].cancelled_ => ran'[t] = ran[t]]_vars

\* C18: while the reactor is blocked in the poller with no wake-up pending,
\* its wait ends no later than the next_time_ of every timer of the set that
\* add_timer has returned (and that was not changed since): the wait is no
\* longer than the time left until that timer expires.
C18_WaitCoversNewTimer ==
  (tpc.pc = "wait" /\ pipe = 0)
     => \A t \in InTimers :
           (/\ t # upc
            /\ ~tm[t].touched /\ ~tm[t].cancelled_
            /\ tm[t].next_time_ = tm[t].created + tm[t].interval_)
              => tpc.start + tpc.timeout
                    <= IF tm[t].next_time_ > tpc.start THEN tm[t].next_time_
                                                       ELSE tpc.start

\* C19: shared-stack isolation: for every sequence of resumes and yields of
\* the coroutines of one slot, the cells [stack_sp_, top) a coroutine finds
\* on the slot when it is resumed are the cells it had there at its last
\* suspension.
C19_FindsOwnBytes ==
  \A f \in StackFibers :
     sfib[f].state_ = "Running" => found[f] = atSuspend[f]

\* C20: the save buffer of a shared-stack coroutine is non-empty if and only
\* if the coroutine is Suspended and another coroutine occupies the slot.
C20_SaveBufferIffDisplaced ==
  \A f \in StackFibers :
     (sfib[f].save_buffer_ # <<>>)
        <=> (sfib[f].state_ = "Suspended" /\ occupy_fiber_ \notin {NoFiber, f})

\* C21: a shared-stack slot has one occupant at a time: at no moment do two
\* coroutines bound to the slot execute on it, also when they are
\* dispatched to different worker threads.
C21_OneOccupant ==
  Cardinality({t \in StackThreads : scur[t] \in StackFibers}) <= 1

C23_CountersCoverAcquires ==
  ~pabort => pool.total_created_ + pool.total_reused_ >= acquires

\* C24: only Terminated coroutines enter the pool: every coroutine in the
\* idle queue is Terminated.
C24_IdleAreTerminated ==
  \A i \in DOMAIN pool.idle_fibers_ :
     pfib[pool.idle_fibers_[i]].state_ = "Terminated"

\* C25: a coroutine reused through the pool behaves like a freshly
\* constructed one: after release(c) and a later acquire(f) that returns c,
\* c equals a new coroutine made for f except that it keeps its id (Ready,
\* no captured error, at the entry of f); resuming a coroutine at its entry
\* starts its callable, and no callable is started twice.
C25_ReuseLikeFresh ==
  /\ [][\A f \in PoolFibers :
          /\ (pfib[f].state_ = "Terminated" /\ pfib'[f].state_ # "Terminated") =>
               pfib'[f] = PoolFresh(pfib[f].id_, acquires')
          /\ (pfib[f].entry /\ pfib'[f].state_ = "Running") =>
               runs'[pfib[f].callback_] = 1]_vars
  /\ [](\A n \in PoolCallables : runs[n] <= 1)

\* C25 witness: the coroutine that ran the first callable has been
\* released, handed out again for the second callable and resumed
C25_ReusedAndResumed ==
  \E f \in PoolFibers :
    /\ pool.total_reused_ = 1
    /\ pfib[f].state_ = "Running"
    /\ pfib[f].callback_ = 2
    /\ ~pfib[f].exception_
    /\ runs[1] = 1
    /\ runs[2] = 1

\* the trampoline captures what the callable throws and terminates the
\* coroutine
C26_CapturedAtEntry ==
  \A f \in UserFibers :
    (state_[f] = "Running" /\ state_'[f] = "Terminated") =>
       exception_'[f] = callback_[f].throws

\* schedule_loop catches what resume() throws, releases the coroutine and is
\* back in its loop, where the next task is dispatched
C26_LoopGoesOn ==
  (resuming.sched /\ resuming' = NoResume /\ exception_[resuming.fiber]) =>
     /\ delivered'[resuming.fiber] = "caught"
     /\ ~aborted'
     /\ InMain'
     /\ Len(idle_fibers_) < PoolMax =>
          idle_fibers_' = Append(idle_fibers_, resuming.fiber)

C27_ErrorsFailLoudly ==
  misuse.call \in {"resume_terminated", "yield_no_current",
                   "reset_not_terminated"} =>
     /\ misuse.outcome = "assert"
     /\ aborted

\* C28: pass-through of the generic I/O hook: when the hook is disabled on
\* the thread, or the fd has no fd record, or the fd is not a socket, or the
\* user explicitly set it nonblocking, the hooked call invokes the original
\* function exactly once and returns its result unchanged, and it leaves
\* the fd's event mask and wait-slots, the timers and the calling
\* coroutine's state unchanged (no event registered, no timer armed, no
\* yield).
C28_PassThrough ==
  [][(/\ hhist'.started = hhist.started + 1
      /\ \/ ~t_hook_enable
         \/ ~fd_datas_.present
         \/ ~fd_datas_.is_socket_
         \/ fd_datas_.user_nonblock_) =>
       /\ hcall'.calls = 1
       /\ hcall'.ret \in {"EINTR", OsResult(osfd, hcall'.ev)}
       /\ io_fd_' = io_fd_
       /\ ~hcall'.timer
       /\ hcall'.pc = "idle"
       /\ hhist'.fired = 0]_vars

\* C28 witness: with the hook enabled, a call on a socket that the user set
\* nonblocking has returned the EAGAIN of its single original call
C28_NonblockingUserGotEagain ==
  /\ t_hook_enable
  /\ fd_datas_.present /\ fd_datas_.is_socket_ /\ fd_datas_.user_nonblock_
  /\ osfd.open /\ osfd.nonblock
  /\ hcall.pc = "idle" /\ hcall.calls = 1 /\ hcall.ret = "EAGAIN"
  /\ hhist.started >= 1

\* C29: for every sequence of user-issued fcntl(F_SETFL, ...) and
\* ioctl(FIONBIO, ...) calls on a socket created through the hooked
\* socket(), the descriptor's actual O_NONBLOCK flag stays set.
C29_NonblockKept ==
  (osfd.open /\ osfd.viaHook) => osfd.nonblock

\* C30: when close(fd) is called with the hook enabled while a callback or
\* coroutine is registered for Read or Write on fd, that waiter is fired
\* (callback invoked or coroutine re-scheduled) as part of the close.
C30_CloseFiresWaiters ==
  [][(osfd.open /\ ~osfd'.open /\ t_hook_enable) =>
       /\ hhist'.fired = Cardinality(io_fd_.events_)
       /\ hcall.pc = "parked" => hcall'.pc = "ready"]_vars

\* C31: when a hooked connect parks the coroutine (the original returned
\* EINPROGRESS) on a socket whose send timeout T was set through the hooked
\* setsockopt, a timeout timer is armed for the call.
C31_ConnectArmsSendTimeout ==
  [][(hcall.pc = "idle" /\ hcall'.pc = "parked" /\ hcall'.op = "connect"
      /\ fd_datas_.send_timeout_ > 0)
     => hcall'.timer]_vars

\* C32: every coroutine constructed from a callable has an id greater than 0
\* that differs from the id of every other coroutine and from the id of the
\* main coroutines.
C32_IdsUniquePositive ==
  \A f \in PoolFibers :
    pfib[f].state_ # "Unborn" =>
      /\ pfib[f].id_ > 0
      /\ pfib[f].id_ # MainFiberId
      /\ \A g \in PoolFibers \ {f} :
           pfib[g].state_ # "Unborn" => pfib[g].id_ # pfib[f].id_

\* C33: when the callback invoked by cancel_event or trigger_event for event
\* E has registered E on the same fd again (add_event returned 0) and the
\* registration is still in place, the rest of the dispatching operation
\* leaves E's bit set and the new waiter in E's wait-slot.
C33_ReRegistrationSurvives ==
  [][\A t \in FdThreads :
       (/\ fth[t].pc \in {"cancel_relock", "dispatch"}
        /\ fth'[t].pc \notin {"cancel_relock", "dispatch"}
        /\ fth[t].re # NoWaiter
        /\ fth[t].ev \in fd_events_
        /\ fd_ctx_[fth[t].ev].callback = fth[t].re)
       => /\ fth[t].ev \in fd_events_'
          /\ fd_ctx_'[fth[t].ev].callback = fth[t].re]_vars

\* C34: in every co_swap to a suspended coroutine f of the slot, taken from
\* the main fiber or from a coroutine of the same slot, the displaced
\* occupant's live bytes are in its save buffer and f's saved bytes, if it
\* has any, are back in the slot when f's context is loaded.
C34_SavedAndRestoredBeforeSwitch ==
  [][\A f \in StackFibers :
       (sfib[f].state_ = "Suspended" /\ sfib'[f].state_ = "Running")
       => /\ \A j \in 1..Len(sfib[f].save_buffer_) :
               sfib[f].stack_sp_ - j + 1 \in Cells
               => slot'[sfib[f].stack_sp_ - j + 1] = sfib[f].save_buffer_[j]
          /\ (occupy_fiber_ \notin {NoFiber, f}
              /\ sfib'[occupy_fiber_].stack_sp_ # NullSp)
             => Len(sfib'[occupy_fiber_].save_buffer_)
                  = sfib'[occupy_fiber_].stack_sp_]_vars

\* C35: when IoScheduler::add_event(fd, event, cb) returns an error, the
\* event mask and both wait-slots of the fd context and the poller
\* registration are what they were before the call.
C35_AddEventTransactional ==
  [][\A e \in FdEvents :
       (/\ hhist'.adds = hhist.adds + 1
        /\ io_fd_' = AddEventOf(io_fd_, osfd.open, e, "callback").c
        /\ AddEventOf(io_fd_, osfd.open, e, "callback").ret < 0)
       => io_fd_' = io_fd_]_vars

\* C36: no access to the fd table runs while another thread resizes the
\* vector, and the auto-creating lookups of one fd that have returned have
\* all returned the same fd context.
C36_TableAccessExclusive ==
  /\ ~tabhist.raced
  /\ \A t \in Workers, u \in Workers :
       (gth[t].done /\ gth[u].done /\ gth[t].fd = gth[u].fd
        /\ gth[t].ret # NoCtx /\ gth[u].ret # NoCtx)
       => gth[t].ret = gth[u].ret

\* C37: with one worker, a yield of the running coroutine gives control to
\* the worker's scheduler coroutine with the coroutine's progress kept; the
\* loop is never left and never resumes a coroutine that cannot be resumed;
\* every scheduled coroutine, the yielded one included, is run again and
\* reaches Terminated.
C37_YieldNeverStalls ==
  /\ [][\A f \in LoopFibers :
          (lfib[f].state_ = "Running" /\ lfib'[f].state_ = "Suspended")
          => lcur' = SchedulerFiber /\ lfib'[f].left = lfib[f].left - 1]_vars
  /\ [][\A f \in LoopFibers :
          (lfib[f].state_ = "Suspended" /\ lfib'[f].state_ = "Running")
          => lcur' = f /\ lfib'[f].left = lfib[f].left]_vars
  /\ [](~labort /\ lcur # MainFiber)
  /\ \A f \in LoopFibers :
       (lfib[f].state_ \in {"Ready", "Suspended"})
         ~> (lfib[f].state_ = "Terminated")

\* C37 witness: a coroutine that yielded has terminated, and so has another
\* coroutine of the queue.
C37_YieldedAndFinished ==
  \E f \in LoopFibers : \E g \in LoopFibers \ {f} :
    /\ lfib[f].state_ = "Terminated" /\ lfib[f].prog > 0
    /\ lfib[g].state_ = "Terminated"

\* C38: no coroutine is handed out twice by the pool: a coroutine is never
\* twice in the idle queue, and a coroutine that acquire has returned
\* (Ready, Running or Suspended) is not in the idle queue at the same time.
C38_NeverHandedOutTwice ==
  /\ \A i \in DOMAIN pool.idle_fibers_ : \A j \in DOMAIN pool.idle_fibers_ :
        pool.idle_fibers_[i] = pool.idle_fibers_[j] => i = j
  /\ \A f \in PoolFibers :
        pfib[f].state_ \in {"Ready", "Running", "Suspended"}
          => \A i \in DOMAIN pool.idle_fibers_ : pool.idle_fibers_[i] # f

\* C39: the task queue's size counter is consistent: it never drops below
\* zero (as an unsigned value it never exceeds the number of tasks pushed),
\* and whenever no push is between its insertion and its fetch_add the
\* counter equals the number of tasks held in the queue.
C39_SizeCounterConsistent ==
  /\ size_ <= Len(pushOrder)
  /\ (\A c \in Clients : cpc[c] # "push_size") => size_ = Len(tasks_)

\* C40: the timer set stays ordered: whenever the timer manager's mutex is
\* free (every step that holds it is one step here), the first element of
\* the set has the smallest next-fire of all timers in the set.
C40_FirstIsEarliest ==
  \A i \in DOMAIN tm_timers_ :
     tm[tm_timers_[1]].next_time_ <= tm[tm_timers_[i]].next_time_

====
